---- MODULE Spec2Model ----
(***************************************************************************)
(* School Management System API: the school / classroom / student stores   *)
(* and the manager operations that keep a classroom's currentEnrollment    *)
(* in step with the students assigned to it.                               *)
(*                                                                         *)
(* Identifiers are the positions of the records in their collection (a     *)
(* record is never removed, so a position is a stable identifier).  An     *)
(* optional value (a field of a patch, the reason of a transfer, the       *)
(* schoolId of a token) is a sequence of length 0 or 1.                    *)
(***************************************************************************)
EXTENDS Integers, Sequences, FiniteSets, TLC

VARIABLES schools, classrooms, students, resp, before, ops, req

vars == <<schools, classrooms, students, resp, before, ops, req>>

(***************************************************************************)
(* Bounds of the model.                                                    *)
(***************************************************************************)
MaxSchools == 2
MaxClassrooms == 2
MaxStudents == 2
MaxCapacity == 2
MaxHistory == 1
MaxOps == 6

(***************************************************************************)
(* Schema constants.                                                       *)
(***************************************************************************)
MinCapacity == 1
MinEnrollment == 0

\* capacity: Joi.number().integer().min(1) of the request body
BodyMinCapacity == 1

Statuses == {"active", "transferred", "graduated", "withdrawn"}

None == <<>>
Some(v) == <<v>>
Optional(S) == {None} \cup {Some(v) : v \in S}

(***************************************************************************)
(* Inputs.  An identifier one past the bound is never stored.              *)
(***************************************************************************)
SchoolRefs == 1..(MaxSchools + 1)
ClassroomRefs == 1..(MaxClassrooms + 1)
StudentRefs == 1..(MaxStudents + 1)

\* An identifier travels as a string (route parameter, body, query, decoded
\* token) or as an ObjectId (a reference read from a stored document).
Str(n) == <<"String", n>>
ObjectId(n) == <<"ObjectId", n>>

\* A number of the request: a number of the JSON body, or a string of digits of
\* the query string (Str), which executeManager lets override the body.
Number(n) == <<"Number", n>>

\* the capacity of a request; a query string of 1 or more is cast to the number
\* the body would carry and takes the same path
CapacityInputs == {Number(n) : n \in 0..MaxCapacity} \cup {Str(0)}

\* the value a schema path of type Number stores, and the operand of <
castNumber(v) == v[2]

\* a value in a condition: 0 is falsy, the string "0" is not
truthy(v) == v # Number(0)

toStringKeepsType(id) == id

\* id.toString(): the hex string of an ObjectId, a string itself
toString(id) == <<"String", id[2]>>

Superadmin == [role |-> "superadmin", schoolId |-> None]
SchoolAdmin(s) == [role |-> "school_admin", schoolId |-> Some(Str(s))]

Tokens ==
    {Superadmin}
        \cup {SchoolAdmin(s) : s \in 1..MaxSchools}

Reasons == Optional({"promotion"})

\* An array of the request, as the nested-key parser of the query string builds
\* it from ?transferHistory[0][reason]=...; the flat parser leaves a string.
List(items) == <<"Array", items>>

ForgedEntry == [fromSchool |-> <<"Unknown">>, reason |-> "forged"]

HistoryInputs == {List(<<ForgedEntry>>), Str(0)}

\* the parameters of a student update: the fields of the body, a schoolId of
\* the query string, or a transferHistory of the query string on its own
StudentPatches ==
    [classroomId : Optional(ClassroomRefs),
     status : Optional(Statuses),
     schoolId : Optional(1..MaxSchools),
     transferHistory : {None}]
        \cup {[classroomId |-> None, status |-> None, schoolId |-> None,
                transferHistory |-> Some(h)] : h \in HistoryInputs}

ClassroomPatches ==
    [capacity : Optional(CapacityInputs),
     currentEnrollment : Optional(0..MaxCapacity),
     isActive : Optional(BOOLEAN)]

SchoolPatches == [isActive : Optional(BOOLEAN)]

NoStudentPatch ==
    [classroomId |-> None, status |-> None, schoolId |-> None, transferHistory |-> None]

NoClassroomPatch == [capacity |-> None, currentEnrollment |-> None, isActive |-> None]

(***************************************************************************)
(* Access resolver (libs/cortex.js).                                       *)
(***************************************************************************)
isSuperadminAnyRole(token) == token # None

\* token && token.role === 'superadmin' (a missing token is None)
isSuperadmin(token) == token # None /\ token.role = "superadmin"

isSchoolAdmin(token) == token # None /\ token.role = "school_admin"

canAccessSchoolUnscoped(token, schoolId) ==
    isSuperadmin(token) \/ isSchoolAdmin(token)

canAccessSchool(token, schoolId) ==
    IF isSuperadmin(token) THEN TRUE
    ELSE IF ~isSchoolAdmin(token) THEN FALSE
    ELSE token.schoolId # None /\ toString(token.schoolId[1]) = toString(schoolId)

(***************************************************************************)
(* Persistence: lookups, and what a save of a classroom document accepts.  *)
(***************************************************************************)
SchoolExists(id) == id \in DOMAIN schools

ClassroomExists(id) == id \in DOMAIN classrooms

StudentExists(id) == id \in DOMAIN students

\* schema validators of the classroom (capacity min 1, currentEnrollment min 0)
ClassroomValid(c) ==
    /\ c.capacity >= MinCapacity
    /\ c.currentEnrollment >= MinEnrollment

ClassroomPreSaveSkipped(c) == TRUE

\* classroomSchema.pre('save')
ClassroomPreSave(c) == ~(c.currentEnrollment > c.capacity)

\* An exception: its name, its code (0 without one) and, for a ValidationError,
\* the paths that failed.  NoError stands for a call that did not throw.
NoError == [name |-> "", code |-> 0, errors |-> {}]

ValidationError(paths) == [name |-> "ValidationError", code |-> 0, errors |-> paths]

\* an exception that carries a name only: new Error(...), a TypeError
Failure(name) == [name |-> name, code |-> 0, errors |-> {}]

\* the paths of a classroom that fail their validators
InvalidPaths(c) ==
    (IF c.capacity < MinCapacity THEN {"capacity"} ELSE {})
        \cup (IF c.currentEnrollment < MinEnrollment THEN {"currentEnrollment"} ELSE {})

\* what classroom.save() throws: the validators run first, then the pre-save hook
ClassroomSaveError(c) ==
    IF ~ClassroomValid(c) THEN ValidationError(InvalidPaths(c))
    ELSE IF ~ClassroomPreSave(c) THEN Failure("Error")
    ELSE NoError

\* error.code of a duplicate key
DuplicateKey == 11000

handleErrorAsServerError(error) ==
    [status |-> 500, code |-> "SERVER_ERROR", details |-> {}]

\* the catch block of executeManager: the one response an exception is turned into
handleError(error) ==
    IF error.name = "ValidationError"
    THEN [status |-> 400, code |-> "VALIDATION_ERROR", details |-> error.errors]
    ELSE IF error.code = DuplicateKey
    THEN [status |-> 409, code |-> "DUPLICATE_ERROR", details |-> {}]
    ELSE IF error.name = "CastError"
    THEN [status |-> 400, code |-> "INVALID_ID", details |-> {}]
    ELSE [status |-> 500, code |-> "SERVER_ERROR", details |-> {}]

ActiveStudentsUncounted(classroomId) == 0

\* countDocuments({ classroomId, status: 'active' })
ActiveStudents(classroomId) ==
    Cardinality({s \in DOMAIN students :
        /\ students[s].classroomId = classroomId
        /\ students[s].status = "active"})

\* `${name} (${grade}-${section})` of a classroom, 'Unknown' without one
ClassroomLabel(id) ==
    IF ClassroomExists(id) THEN <<"classroom", id>> ELSE <<"Unknown">>

(***************************************************************************)
(* Outcomes of an operation: the response and the stores it leaves.        *)
(***************************************************************************)
Outcome(code, msg, sch, cls, stu) ==
    [code |-> code, msg |-> msg, schools |-> sch, classrooms |-> cls, students |-> stu]

\* { error, code } returned by a manager: nothing was written
Rejected(code, msg) == Outcome(code, msg, schools, classrooms, students)

\* an exception, after the writes that preceded it: the response of the catch
\* block of the dispatcher
Thrown(error, cls, stu) ==
    Outcome(handleError(error).code, "", schools, cls, stu)

Done(msg, cls, stu) == Outcome("OK", msg, schools, cls, stu)

(***************************************************************************)
(* StudentManager (managers/student/Student.manager.js).                   *)
(***************************************************************************)
\* the unique enrollment code a student is assigned at creation
EnrollmentCode(n) == <<"STU", n>>

\* Student.create({...}): status and transferHistory take the schema defaults
NewStudent(schoolId, classroomId) ==
    [schoolId |-> schoolId, classroomId |-> classroomId,
     studentId |-> EnrollmentCode(Len(students) + 1),
     status |-> "active", transferHistory |-> <<>>]

CapacityFullWhenOver(classroom) == classroom.currentEnrollment > classroom.capacity

\* the capacity check shared by create, update and transfer
CapacityFull(classroom) == classroom.currentEnrollment >= classroom.capacity

BelongsToAnySchool(classroom, schoolId) == TRUE

\* classroom.schoolId.toString() !== schoolId, negated
BelongsToSchool(classroom, schoolId) == classroom.schoolId = schoolId

SameSchoolUnchecked(newClassroom, student) == TRUE

\* newClassroom.schoolId.toString() !== student.schoolId.toString(), negated
SameSchool(newClassroom, student) == newClassroom.schoolId = student.schoolId

AlreadyInClassroomUnchecked(student, newClassroomId) == FALSE

\* student.classroomId.toString() === newClassroomId
AlreadyInClassroom(student, newClassroomId) == student.classroomId = newClassroomId

\* classroom.currentEnrollment += 1
Incremented(classroom) == [classroom EXCEPT !.currentEnrollment = @ + 1]

NotDecremented(classroom) == classroom

\* oldClassroom.currentEnrollment -= 1
Decremented(classroom) == [classroom EXCEPT !.currentEnrollment = @ - 1]

\* the checks of create, in the order of the code: the code and the message of
\* the first one that fails, and the code "" when all of them pass
EnrollRejection(token, schoolId, classroomId) ==
    IF ~canAccessSchool(token, Str(schoolId))
    THEN [code |-> "FORBIDDEN", msg |-> "Access denied to this school"]
    ELSE IF ~ClassroomExists(classroomId)
    THEN [code |-> "NOT_FOUND", msg |-> "Classroom not found"]
    ELSE IF ~BelongsToSchool(classrooms[classroomId], schoolId)
    THEN [code |-> "INVALID_OPERATION",
          msg |-> "Classroom does not belong to this school"]
    ELSE IF CapacityFull(classrooms[classroomId])
    THEN [code |-> "CAPACITY_FULL", msg |-> "Classroom is at full capacity"]
    ELSE [code |-> "", msg |-> ""]

StudentCreate(token, schoolId, classroomId) ==
    IF EnrollRejection(token, schoolId, classroomId).code # ""
    THEN Rejected(EnrollRejection(token, schoolId, classroomId).code,
                  EnrollRejection(token, schoolId, classroomId).msg)
    ELSE LET classroom == classrooms[classroomId]
             created == Append(students, NewStudent(schoolId, classroomId))
             saved == Incremented(classroom)
         IN  IF ClassroomSaveError(saved) # NoError
             THEN Thrown(ClassroomSaveError(saved), classrooms, created)
             ELSE Done("Student enrolled successfully",
                       [classrooms EXCEPT ![classroomId] = saved], created)

\* Object.assign(student, updateData)
AssignStudent(student, updateData) ==
    [student EXCEPT
        !.classroomId = IF updateData.classroomId # None
                        THEN updateData.classroomId[1] ELSE @,
        !.status = IF updateData.status # None THEN updateData.status[1] ELSE @,
        !.schoolId = IF updateData.schoolId # None THEN updateData.schoolId[1] ELSE @,
        !.transferHistory = IF updateData.transferHistory # None
                               /\ updateData.transferHistory[1][1] = "Array"
                            THEN updateData.transferHistory[1][2] ELSE @]

\* what student.save() throws after the assignment: a transferHistory that is
\* not an array of entries fails the cast of the path
StudentSaveError(updateData) ==
    IF updateData.transferHistory # None /\ updateData.transferHistory[1][1] # "Array"
    THEN ValidationError({"transferHistory"})
    ELSE NoError

\* the "update enrollment counts" block of update and transfer: the origin is
\* decremented and saved, then the destination incremented and saved; the
\* result is the classrooms written and the failure of the save that threw
MoveCounts(oldId, newId) ==
    LET old == IF ClassroomExists(oldId)
               THEN Decremented(classrooms[oldId])
               ELSE classrooms[newId]
        oldError == IF ClassroomExists(oldId) THEN ClassroomSaveError(old) ELSE NoError
        afterOld == IF ClassroomExists(oldId) /\ oldError = NoError
                    THEN [classrooms EXCEPT ![oldId] = old] ELSE classrooms
        new == Incremented(classrooms[newId])
        newError == ClassroomSaveError(new)
    IN  IF oldError # NoError THEN [error |-> oldError, classrooms |-> classrooms]
        ELSE IF newError # NoError THEN [error |-> newError, classrooms |-> afterOld]
        ELSE [error |-> NoError, classrooms |-> [afterOld EXCEPT ![newId] = new]]

ChangesClassroomAlways(student, updateData) == updateData.classroomId # None

\* the patch names a classroom other than the one the student references
ChangesClassroom(student, updateData) ==
    /\ updateData.classroomId # None
    /\ updateData.classroomId[1] # student.classroomId

StudentUpdate(token, id, updateData) ==
    IF ~StudentExists(id)
    THEN Rejected("NOT_FOUND", "Student not found")
    ELSE LET student == students[id] IN
    IF ~canAccessSchool(token, ObjectId(student.schoolId))
    THEN Rejected("FORBIDDEN", "Access denied to this student")
    ELSE IF ChangesClassroom(student, updateData)
    THEN LET newId == updateData.classroomId[1] IN
         IF ~ClassroomExists(newId)
         THEN Rejected("NOT_FOUND", "New classroom not found")
         ELSE IF CapacityFull(classrooms[newId])
         THEN Rejected("CAPACITY_FULL", "New classroom is at full capacity")
         ELSE IF ~SameSchool(classrooms[newId], student)
         THEN Rejected("INVALID_OPERATION", "New classroom must be in the same school")
         ELSE LET moved == MoveCounts(student.classroomId, newId) IN
              IF moved.error # NoError
              THEN Thrown(moved.error, moved.classrooms, students)
              ELSE IF StudentSaveError(updateData) # NoError
              THEN Thrown(StudentSaveError(updateData), moved.classrooms, students)
              ELSE Done("Student updated successfully", moved.classrooms,
                        [students EXCEPT ![id] = AssignStudent(student, updateData)])
    ELSE IF StudentSaveError(updateData) # NoError
    THEN Thrown(StudentSaveError(updateData), classrooms, students)
    ELSE Done("Student updated successfully", classrooms,
              [students EXCEPT ![id] = AssignStudent(student, updateData)])

WithdrawnNotCounted(classroom) == classroom

WithdrawnUnfloored(classroom) == Decremented(classroom)

\* the decrement of delete: only a positive counter is lowered and saved
Withdrawn(classroom) ==
    IF classroom.currentEnrollment > 0 THEN Decremented(classroom) ELSE classroom

StudentDeleteRemoving(token, id) ==
    IF ~StudentExists(id)
    THEN Rejected("NOT_FOUND", "Student not found")
    ELSE IF ~canAccessSchool(token, ObjectId(students[id].schoolId))
    THEN Rejected("FORBIDDEN", "Access denied to this student")
    ELSE Done("Student withdrawn successfully", classrooms,
              [i \in 1..(Len(students) - 1) |->
                  IF i < id THEN students[i] ELSE students[i + 1]])

StudentDelete(token, id) ==
    IF ~StudentExists(id)
    THEN Rejected("NOT_FOUND", "Student not found")
    ELSE LET student == students[id] IN
    IF ~canAccessSchool(token, ObjectId(student.schoolId))
    THEN Rejected("FORBIDDEN", "Access denied to this student")
    ELSE LET saved == [students EXCEPT ![id].status = "withdrawn"]
             cid == student.classroomId
         IN  IF ~ClassroomExists(cid)
             THEN Done("Student withdrawn successfully", classrooms, saved)
             ELSE IF ClassroomSaveError(Withdrawn(classrooms[cid])) # NoError
             THEN Thrown(ClassroomSaveError(Withdrawn(classrooms[cid])), classrooms, saved)
             ELSE Done("Student withdrawn successfully",
                       [classrooms EXCEPT ![cid] = Withdrawn(classrooms[cid])], saved)

\* the entry transfer pushes on transferHistory
TransferEntry(oldId, reason) ==
    [fromSchool |-> ClassroomLabel(oldId),
     reason |-> IF reason # None THEN reason[1] ELSE "Classroom transfer"]

StudentTransfer(token, id, newClassroomId, reason) ==
    IF ~StudentExists(id)
    THEN Rejected("NOT_FOUND", "Student not found")
    ELSE LET student == students[id] IN
    IF ~canAccessSchool(token, ObjectId(student.schoolId))
    THEN Rejected("FORBIDDEN", "Access denied to this student")
    ELSE IF ~ClassroomExists(newClassroomId)
    THEN Rejected("NOT_FOUND", "New classroom not found")
    ELSE IF ~SameSchool(classrooms[newClassroomId], student)
    THEN Rejected("INVALID_OPERATION", "Can only transfer students within the same school")
    ELSE IF AlreadyInClassroom(student, newClassroomId)
    THEN Rejected("INVALID_OPERATION", "Student is already in this classroom")
    ELSE IF CapacityFull(classrooms[newClassroomId])
    THEN Rejected("CAPACITY_FULL", "New classroom is at full capacity")
    ELSE LET moved == MoveCounts(student.classroomId, newClassroomId) IN
         IF moved.error # NoError
         THEN Thrown(moved.error, moved.classrooms, students)
         ELSE Done("Student transferred successfully", moved.classrooms,
                   [students EXCEPT
                       ![id].transferHistory =
                           Append(@, TransferEntry(student.classroomId, reason)),
                       ![id].classroomId = newClassroomId])

\* a transfer of student id to newClassroomId by token passes every check of
\* the operation
TransferPassesChecks(token, id, newClassroomId) ==
    /\ StudentExists(id)
    /\ canAccessSchool(token, ObjectId(students[id].schoolId))
    /\ ClassroomExists(newClassroomId)
    /\ SameSchool(classrooms[newClassroomId], students[id])
    /\ ~AlreadyInClassroom(students[id], newClassroomId)
    /\ ~CapacityFull(classrooms[newClassroomId])

(***************************************************************************)
(* ClassroomManager (managers/classroom/classroom.routes.js).              *)
(***************************************************************************)
\* cortex.validate(schema): the body is refused before the manager runs when its
\* capacity is below the minimum; the query string is not looked at
BodyAccepted(capacity) ==
    capacity[1] = "Number" => capacity[2] >= BodyMinCapacity

NewClassroomAsSupplied(schoolId, capacity, currentEnrollment) ==
    [schoolId |-> schoolId, capacity |-> capacity,
     currentEnrollment |-> IF currentEnrollment # None THEN currentEnrollment[1] ELSE 0,
     isActive |-> TRUE]

\* Classroom.create({...}): a currentEnrollment among the parameters is not
\* passed on; currentEnrollment and isActive take the defaults
NewClassroom(schoolId, capacity, currentEnrollment) ==
    [schoolId |-> schoolId, capacity |-> capacity,
     currentEnrollment |-> 0, isActive |-> TRUE]

ClassroomCreate(token, schoolId, capacity, currentEnrollment) ==
    LET classroom == NewClassroom(schoolId, castNumber(capacity), currentEnrollment) IN
    IF ~BodyAccepted(capacity)
    THEN Rejected("VALIDATION_ERROR", "Validation error")
    ELSE IF ~canAccessSchool(token, Str(schoolId))
    THEN Rejected("FORBIDDEN", "Access denied to this school")
    ELSE IF ~SchoolExists(schoolId)
    THEN Rejected("NOT_FOUND", "School not found")
    ELSE IF ClassroomSaveError(classroom) # NoError
    THEN Thrown(ClassroomSaveError(classroom), classrooms, students)
    ELSE Done("Classroom created successfully", Append(classrooms, classroom), students)

\* Object.assign(classroom, updateData)
AssignClassroom(classroom, updateData) ==
    [classroom EXCEPT
        !.capacity = IF updateData.capacity # None
                     THEN castNumber(updateData.capacity[1]) ELSE @,
        !.currentEnrollment = IF updateData.currentEnrollment # None
                              THEN updateData.currentEnrollment[1] ELSE @,
        !.isActive = IF updateData.isActive # None THEN updateData.isActive[1] ELSE @]

ReducesBelowEnrollmentUnchecked(classroom, updateData) == FALSE

\* updateData.capacity && updateData.capacity < classroom.currentEnrollment
ReducesBelowEnrollment(classroom, updateData) ==
    /\ updateData.capacity # None
    /\ truthy(updateData.capacity[1])
    /\ castNumber(updateData.capacity[1]) < classroom.currentEnrollment

ClassroomUpdate(token, id, updateData) ==
    IF updateData.capacity # None /\ ~BodyAccepted(updateData.capacity[1])
    THEN Rejected("VALIDATION_ERROR", "Validation error")
    ELSE IF ~ClassroomExists(id)
    THEN Rejected("NOT_FOUND", "Classroom not found")
    ELSE LET classroom == classrooms[id] IN
    IF ~canAccessSchool(token, ObjectId(classroom.schoolId))
    THEN Rejected("FORBIDDEN", "Access denied to this classroom")
    ELSE IF ReducesBelowEnrollment(classroom, updateData)
    THEN Rejected("BUSINESS_ERROR",
                  <<"Cannot reduce capacity below current enrollment",
                    classroom.currentEnrollment>>)
    ELSE IF ClassroomSaveError(AssignClassroom(classroom, updateData)) # NoError
    THEN Thrown(ClassroomSaveError(AssignClassroom(classroom, updateData)),
                classrooms, students)
    ELSE Done("Classroom updated successfully",
              [classrooms EXCEPT ![id] = AssignClassroom(classroom, updateData)],
              students)

ClassroomDeleteDeactivatesFirst(token, id) ==
    IF ~ClassroomExists(id)
    THEN Rejected("NOT_FOUND", "Classroom not found")
    ELSE LET classroom == classrooms[id] IN
    IF ~canAccessSchool(token, ObjectId(classroom.schoolId))
    THEN Rejected("FORBIDDEN", "Access denied to this classroom")
    ELSE IF ActiveStudents(id) > 0
    THEN Outcome("BUSINESS_ERROR",
                 <<"Cannot delete classroom with active students", ActiveStudents(id)>>,
                 schools, [classrooms EXCEPT ![id].isActive = FALSE], students)
    ELSE Done("Classroom deleted successfully",
              [classrooms EXCEPT ![id].isActive = FALSE], students)

ClassroomDelete(token, id) ==
    IF ~ClassroomExists(id)
    THEN Rejected("NOT_FOUND", "Classroom not found")
    ELSE LET classroom == classrooms[id] IN
    IF ~canAccessSchool(token, ObjectId(classroom.schoolId))
    THEN Rejected("FORBIDDEN", "Access denied to this classroom")
    ELSE IF ActiveStudents(id) > 0
    THEN Rejected("BUSINESS_ERROR",
                  <<"Cannot delete classroom with active students", ActiveStudents(id)>>)
    ELSE IF ClassroomSaveError([classroom EXCEPT !.isActive = FALSE]) # NoError
    THEN Thrown(ClassroomSaveError([classroom EXCEPT !.isActive = FALSE]),
                classrooms, students)
    ELSE Done("Classroom deleted successfully",
              [classrooms EXCEPT ![id].isActive = FALSE], students)

(***************************************************************************)
(* SchoolManager (School.manager.js): the operations that store a school   *)
(* and soft-delete it.                                                     *)
(***************************************************************************)
\* valid: whether cortex.validate(schema) accepts the body of the request
SchoolCreate(token, valid) ==
    IF ~valid
    THEN Rejected("VALIDATION_ERROR", "Validation error")
    ELSE IF ~isSuperadmin(token)
    THEN Rejected("FORBIDDEN", "Only superadmins can create schools")
    ELSE Outcome("OK", "School created successfully",
                 Append(schools, [isActive |-> TRUE]), classrooms, students)

\* findByIdAndUpdate(targetId, updateData, { new: true, runValidators: true })
SchoolUpdate(token, id, updateData, valid) ==
    IF ~valid
    THEN Rejected("VALIDATION_ERROR", "Validation error")
    ELSE IF ~isSuperadmin(token)
    THEN Rejected("FORBIDDEN", "Only superadmins can update schools")
    ELSE IF ~SchoolExists(id)
    THEN Rejected("NOT_FOUND", "School not found")
    ELSE Outcome("OK", "School updated successfully",
                 [schools EXCEPT ![id].isActive =
                     IF updateData.isActive # None THEN updateData.isActive[1] ELSE @],
                 classrooms, students)

SchoolDeleteCascading(token, id) ==
    IF ~isSuperadmin(token)
    THEN Rejected("FORBIDDEN", "Only superadmins can delete schools")
    ELSE IF ~SchoolExists(id)
    THEN Rejected("NOT_FOUND", "School not found")
    ELSE Outcome("OK", "School deleted successfully",
                 [schools EXCEPT ![id].isActive = FALSE],
                 [c \in DOMAIN classrooms |->
                     IF classrooms[c].schoolId = id
                     THEN [classrooms[c] EXCEPT !.isActive = FALSE] ELSE classrooms[c]],
                 students)

SchoolDelete(token, id) ==
    IF ~isSuperadmin(token)
    THEN Rejected("FORBIDDEN", "Only superadmins can delete schools")
    ELSE IF ~SchoolExists(id)
    THEN Rejected("NOT_FOUND", "School not found")
    ELSE Outcome("OK", "School deleted successfully",
                 [schools EXCEPT ![id].isActive = FALSE], classrooms, students)

(***************************************************************************)
(* The state machine: one action per operation, a request handled whole.   *)
(***************************************************************************)
\* no request is in flight
Idle ==
    [pc |-> "idle", step |-> 0, token |-> None, schoolId |-> None,
     classroomId |-> None, classroom |-> None]

Init ==
    /\ schools = <<>>
    /\ classrooms = <<>>
    /\ students = <<>>
    /\ resp = [op |-> "none", code |-> "OK", msg |-> ""]
    /\ before = [classrooms |-> <<>>, students |-> <<>>]
    /\ ops = 0
    /\ req = Idle

WithinBounds(out) ==
    /\ Len(out.schools) <= MaxSchools
    /\ Len(out.classrooms) <= MaxClassrooms
    /\ Len(out.students) <= MaxStudents
    /\ \A s \in DOMAIN out.students :
           Len(out.students[s].transferHistory) <= MaxHistory

\* the stores take the outcome of the operation and the response is recorded
Respond(op, out) ==
    /\ req = Idle
    /\ UNCHANGED req
    /\ ops < MaxOps
    /\ ops' = ops + 1
    /\ WithinBounds(out)
    /\ schools' = out.schools
    /\ classrooms' = out.classrooms
    /\ students' = out.students
    /\ resp' = [op |-> op, code |-> out.code, msg |-> out.msg]
    /\ before' = [classrooms |-> classrooms, students |-> students]

StudentCreateStep(token, schoolId, classroomId) ==
    Respond("student.create", StudentCreate(token, schoolId, classroomId))

StudentUpdateStep(token, id, updateData) ==
    Respond("student.update", StudentUpdate(token, id, updateData))

StudentDeleteStep(token, id) ==
    Respond("student.delete", StudentDelete(token, id))

StudentTransferStep(token, id, newClassroomId, reason) ==
    Respond("student.transfer", StudentTransfer(token, id, newClassroomId, reason))

ClassroomCreateStep(token, schoolId, capacity, currentEnrollment) ==
    Respond("classroom.create",
            ClassroomCreate(token, schoolId, capacity, currentEnrollment))

ClassroomUpdateStep(token, id, updateData) ==
    Respond("classroom.update", ClassroomUpdate(token, id, updateData))

ClassroomDeleteStep(token, id) ==
    Respond("classroom.delete", ClassroomDelete(token, id))

SchoolCreateStep(token, valid) == Respond("school.create", SchoolCreate(token, valid))

SchoolUpdateStep(token, id, updateData, valid) ==
    Respond("school.update", SchoolUpdate(token, id, updateData, valid))

SchoolDeleteStep(token, id) == Respond("school.delete", SchoolDelete(token, id))

\* a request is taken while the run has operations left
EnrollStudent ==
    /\ ops < MaxOps
    /\ \E token \in Tokens, schoolId \in SchoolRefs, classroomId \in ClassroomRefs :
        StudentCreateStep(token, schoolId, classroomId)

\* updateData is read only once the student is found
UpdateStudent ==
    /\ ops < MaxOps
    /\ \E token \in Tokens, id \in StudentRefs :
        \E updateData \in IF StudentExists(id) THEN StudentPatches ELSE {NoStudentPatch} :
            StudentUpdateStep(token, id, updateData)

WithdrawStudent ==
    /\ ops < MaxOps
    /\ \E token \in Tokens, id \in StudentRefs : StudentDeleteStep(token, id)

TransferStudent ==
    /\ ops < MaxOps
    /\ \E token \in Tokens, id \in StudentRefs, newClassroomId \in ClassroomRefs,
       reason \in Reasons :
        StudentTransferStep(token, id, newClassroomId, reason)

CreateClassroom ==
    /\ ops < MaxOps
    /\ \E token \in Tokens, schoolId \in SchoolRefs, capacity \in CapacityInputs,
          currentEnrollment \in Optional({MaxCapacity}) :
        ClassroomCreateStep(token, schoolId, capacity, currentEnrollment)

\* without the classroom only the validation of the body reads updateData
UpdateClassroom ==
    /\ ops < MaxOps
    /\ \E token \in Tokens, id \in ClassroomRefs :
        \E updateData \in IF ClassroomExists(id) THEN ClassroomPatches
                          ELSE {NoClassroomPatch,
                                [NoClassroomPatch EXCEPT !.capacity = Some(Number(0))]} :
            ClassroomUpdateStep(token, id, updateData)

DeleteClassroom ==
    /\ ops < MaxOps
    /\ \E token \in Tokens, id \in ClassroomRefs : ClassroomDeleteStep(token, id)

CreateSchool ==
    /\ ops < MaxOps
    /\ \E token \in Tokens, valid \in BOOLEAN : SchoolCreateStep(token, valid)

UpdateSchool ==
    /\ ops < MaxOps
    /\ \E token \in Tokens, id \in SchoolRefs, updateData \in SchoolPatches,
          valid \in BOOLEAN :
        SchoolUpdateStep(token, id, updateData, valid)

DeleteSchool ==
    /\ ops < MaxOps
    /\ \E token \in Tokens, id \in SchoolRefs : SchoolDeleteStep(token, id)

Next ==
    \/ EnrollStudent
    \/ UpdateStudent
    \/ WithdrawStudent
    \/ TransferStudent
    \/ CreateClassroom
    \/ UpdateClassroom
    \/ DeleteClassroom
    \/ CreateSchool
    \/ UpdateSchool
    \/ DeleteSchool

Spec == Init /\ [][Next]_vars

(***************************************************************************)
(* The same enroll, one persistence call at a time: the request reads the  *)
(* classroom and runs the checks on its copy, then makes its writes in the *)
(* order of the code.  One request is in flight at a time.                 *)
(***************************************************************************)
EnrollWritesCounterFirst == <<"classroom", "student">>

\* the writes of create after the checks: Student.create, then classroom.save
EnrollWrites == <<"student", "classroom">>

Request(op, code, msg) == [op |-> op, code |-> code, msg |-> msg]

\* the write just made was the last one: the response is sent
EnrollAdvance ==
    IF req.step = Len(EnrollWrites)
    THEN /\ req' = Idle
         /\ resp' = Request("student.create", "OK", "Student enrolled successfully")
    ELSE /\ req' = [req EXCEPT !.step = @ + 1]
         /\ UNCHANGED resp

EnrollRead(token, schoolId, classroomId) ==
    /\ req = Idle
    /\ ops < MaxOps
    /\ ops' = ops + 1
    /\ before' = [classrooms |-> classrooms, students |-> students]
    /\ UNCHANGED <<schools, classrooms, students>>
    /\ LET rejection == EnrollRejection(token, schoolId, classroomId) IN
       IF rejection.code # ""
       THEN /\ resp' = Request("student.create", rejection.code, rejection.msg)
            /\ UNCHANGED req
       ELSE /\ Len(students) < MaxStudents
            /\ resp' = Request("student.create", "PENDING", "")
            /\ req' = [pc |-> "write", step |-> 1, token |-> Some(token),
                       schoolId |-> Some(schoolId),
                       classroomId |-> Some(classroomId),
                       classroom |-> Some(classrooms[classroomId])]

EnrollWriteStudent ==
    /\ req.pc = "write"
    /\ EnrollWrites[req.step] = "student"
    /\ students' = Append(students, NewStudent(req.schoolId[1], req.classroomId[1]))
    /\ EnrollAdvance
    /\ UNCHANGED <<schools, classrooms, before, ops>>

\* classroom.save() writes the modified path of the copy the request holds
EnrollWriteClassroom ==
    /\ req.pc = "write"
    /\ EnrollWrites[req.step] = "classroom"
    /\ LET saved == Incremented(req.classroom[1]) IN
       IF ClassroomSaveError(saved) # NoError
       THEN /\ req' = Idle
            /\ resp' = Request("student.create",
                               handleError(ClassroomSaveError(saved)).code, "")
            /\ UNCHANGED classrooms
       ELSE /\ classrooms' = [classrooms EXCEPT
                   ![req.classroomId[1]].currentEnrollment = saved.currentEnrollment]
            /\ EnrollAdvance
    /\ UNCHANGED <<schools, students, before, ops>>

\* the errors classroom.save() rejects with when the write itself fails: they
\* are neither a ValidationError nor a CastError and carry no duplicate key
DriverErrorsOrDuplicateKey ==
    {Failure("MongoNetworkError"),
     [name |-> "MongoServerError", code |-> DuplicateKey, errors |-> {}]}

DriverErrors == {Failure("MongoNetworkError"), Failure("MongoServerSelectionError")}

\* classroom.save() of create rejects: nothing is written, no later statement
\* of create runs, and the catch block of executeManager answers
EnrollWriteClassroomFails ==
    /\ req.pc = "write"
    /\ EnrollWrites[req.step] = "classroom"
    /\ \E error \in DriverErrors :
           resp' = [op |-> "student.create", code |-> handleError(error).code,
                    msg |-> "", status |-> handleError(error).status]
    /\ req' = Idle
    /\ UNCHANGED <<schools, classrooms, students, before, ops>>

EnrollReadStep ==
    /\ ops < MaxOps
    /\ \E token \in Tokens, schoolId \in SchoolRefs, classroomId \in ClassroomRefs :
        EnrollRead(token, schoolId, classroomId)

NextSteps ==
    \/ EnrollReadStep
    \/ EnrollWriteStudent
    \/ EnrollWriteClassroom
    \/ EnrollWriteClassroomFails
    \/ WithdrawStudent
    \/ CreateClassroom
    \/ UpdateClassroom
    \/ CreateSchool

SpecSteps == Init /\ [][NextSteps]_vars

(***************************************************************************)
(* The operations that read: they return records or counts and write       *)
(* nothing.  A listing returns the identifiers of its records, newest      *)
(* first, one page of them.                                                *)
(***************************************************************************)
\* page = 1, limit = 20 of getAll
DefaultPage == 1
DefaultLimit == 20

\* page and limit of a request
Pages == {DefaultPage, DefaultPage + 1}
Limits == {1, DefaultLimit}

\* the response of a read: the stores stay as they are
Returned(data) == Outcome("OK", data, schools, classrooms, students)

RECURSIVE SortDescending(_)
\* .sort({ createdAt: -1 }): a later record has a larger identifier
SortDescending(S) ==
    IF S = {} THEN <<>>
    ELSE LET newest == CHOOSE n \in S : \A m \in S : m <= n
         IN  <<newest>> \o SortDescending(S \ {newest})

\* .limit(parseInt(limit)).skip((page - 1) * limit)
PageOf(rows, page, limit) ==
    LET skip == (page - 1) * limit
        last == IF skip + limit < Len(rows) THEN skip + limit ELSE Len(rows)
    IN  SubSeq(rows, skip + 1, last)

SchoolFilterAsRequested(token, schoolId) == schoolId

\* the schoolId of the query of a listing: the school of a school admin whatever
\* the request asks for, else the schoolId of the request, else none
SchoolFilter(token, schoolId) ==
    IF isSchoolAdmin(token) THEN token.schoolId ELSE schoolId

\* a stored reference equals the value a filter was given
Matches(filter, ref) == filter = None \/ toString(filter[1]) = toString(ObjectId(ref))

ClassroomGetAll(token, page, limit, schoolId) ==
    LET query == SchoolFilter(token, schoolId)
        found == {c \in DOMAIN classrooms :
                     /\ classrooms[c].isActive
                     /\ Matches(query, classrooms[c].schoolId)}
    IN  Returned(PageOf(SortDescending(found), page, limit))

\* classroom.schoolId is populated: without the school it is null, and reading
\* its _id throws
ClassroomGetById(token, id) ==
    IF ~ClassroomExists(id)
    THEN Rejected("NOT_FOUND", "Classroom not found")
    ELSE IF ~SchoolExists(classrooms[id].schoolId)
    THEN Thrown(Failure("TypeError"), classrooms, students)
    ELSE IF ~canAccessSchool(token, ObjectId(classrooms[id].schoolId))
    THEN Rejected("FORBIDDEN", "Access denied to this classroom")
    ELSE Returned(<<id, ActiveStudents(id)>>)

\* Student.find({ classroomId, status: 'active' })
ActiveRoster(classroomId) ==
    {s \in DOMAIN students :
        students[s].classroomId = classroomId /\ students[s].status = "active"}

ClassroomGetStudents(token, id) ==
    IF ~ClassroomExists(id)
    THEN Rejected("NOT_FOUND", "Classroom not found")
    ELSE IF ~canAccessSchool(token, ObjectId(classrooms[id].schoolId))
    THEN Rejected("FORBIDDEN", "Access denied to this classroom")
    ELSE Returned(ActiveRoster(id))

StudentGetAll(token, page, limit, status, classroomId, schoolId) ==
    LET query == SchoolFilter(token, schoolId)
        found == {s \in DOMAIN students :
                     /\ Matches(query, students[s].schoolId)
                     /\ status # None => students[s].status = status[1]
                     /\ Matches(classroomId, students[s].classroomId)}
    IN  Returned(PageOf(SortDescending(found), page, limit))

\* student.schoolId is populated: without the school it is null, and reading
\* its _id throws
StudentGetById(token, id) ==
    IF ~StudentExists(id)
    THEN Rejected("NOT_FOUND", "Student not found")
    ELSE IF ~SchoolExists(students[id].schoolId)
    THEN Thrown(Failure("TypeError"), classrooms, students)
    ELSE IF ~canAccessSchool(token, ObjectId(students[id].schoolId))
    THEN Rejected("FORBIDDEN", "Access denied to this student")
    ELSE Returned(id)

StudentGetByClassroom(token, classroomId) ==
    IF ~ClassroomExists(classroomId)
    THEN Rejected("NOT_FOUND", "Classroom not found")
    ELSE IF ~canAccessSchool(token, ObjectId(classrooms[classroomId].schoolId))
    THEN Rejected("FORBIDDEN", "Access denied to this classroom")
    ELSE Returned(ActiveRoster(classroomId))

StudentGetBySchool(token, schoolId) ==
    IF ~canAccessSchool(token, Str(schoolId))
    THEN Rejected("FORBIDDEN", "Access denied to this school")
    ELSE Returned({s \in DOMAIN students :
                      students[s].schoolId = schoolId /\ students[s].status = "active"})

SchoolGetAll(token, page, limit) ==
    IF ~isSuperadmin(token)
    THEN Rejected("FORBIDDEN", "Only superadmins can list all schools")
    ELSE Returned(PageOf(SortDescending({i \in DOMAIN schools : schools[i].isActive}),
                         page, limit))

SchoolGetById(token, id) ==
    IF ~canAccessSchool(token, Str(id))
    THEN Rejected("FORBIDDEN", "Access denied to this school")
    ELSE IF ~SchoolExists(id)
    THEN Rejected("NOT_FOUND", "School not found")
    ELSE Returned(id)

SchoolGetStats(token, id) ==
    IF ~canAccessSchool(token, Str(id))
    THEN Rejected("FORBIDDEN", "Access denied to this school")
    ELSE IF ~SchoolExists(id)
    THEN Rejected("NOT_FOUND", "School not found")
    ELSE Returned(
        [classrooms |-> Cardinality({c \in DOMAIN classrooms :
                            classrooms[c].schoolId = id /\ classrooms[c].isActive}),
         students |-> Cardinality({s \in DOMAIN students :
                            students[s].schoolId = id /\ students[s].status = "active"})])

\* The response of a read is recorded with the claim of the caller.  The stores
\* are the ones before the read, so the run ends with it: what follows a read is
\* what follows without it.
Answer(op, token, out) ==
    /\ req = Idle
    /\ ops < MaxOps
    /\ ops' = MaxOps
    /\ resp' = [op |-> op, code |-> out.code, msg |-> out.msg, token |-> token]
    /\ before' = [classrooms |-> classrooms, students |-> students]
    /\ schools' = out.schools
    /\ classrooms' = out.classrooms
    /\ students' = out.students
    /\ UNCHANGED req

ListClassrooms ==
    \E token \in Tokens, page \in Pages, limit \in Limits,
       schoolId \in Optional({Str(i) : i \in SchoolRefs}) :
        Answer("classroom.getAll", token, ClassroomGetAll(token, page, limit, schoolId))

GetClassroom ==
    \E token \in Tokens, id \in ClassroomRefs :
        Answer("classroom.getById", token, ClassroomGetById(token, id))

GetClassroomStudents ==
    \E token \in Tokens, id \in ClassroomRefs :
        Answer("classroom.getStudents", token, ClassroomGetStudents(token, id))

ListStudents ==
    \E token \in Tokens, page \in Pages, limit \in Limits,
       status \in Optional({"active"}),
       classroomId \in Optional({Str(i) : i \in ClassroomRefs}),
       schoolId \in Optional({Str(i) : i \in SchoolRefs}) :
        Answer("student.getAll", token,
               StudentGetAll(token, page, limit, status, classroomId, schoolId))

GetStudent ==
    \E token \in Tokens, id \in StudentRefs :
        Answer("student.getById", token, StudentGetById(token, id))

GetStudentsByClassroom ==
    \E token \in Tokens, classroomId \in ClassroomRefs :
        Answer("student.getByClassroom", token, StudentGetByClassroom(token, classroomId))

GetStudentsBySchool ==
    \E token \in Tokens, schoolId \in SchoolRefs :
        Answer("student.getBySchool", token, StudentGetBySchool(token, schoolId))

ListSchools ==
    \E token \in Tokens, page \in Pages, limit \in Limits :
        Answer("school.getAll", token, SchoolGetAll(token, page, limit))

GetSchool ==
    \E token \in Tokens, id \in SchoolRefs :
        Answer("school.getById", token, SchoolGetById(token, id))

GetSchoolStats ==
    \E token \in Tokens, id \in SchoolRefs :
        Answer("school.getStats", token, SchoolGetStats(token, id))

NextApi ==
    \/ EnrollStudent
    \/ UpdateStudent
    \/ WithdrawStudent
    \/ TransferStudent
    \/ CreateClassroom
    \/ UpdateClassroom
    \/ DeleteClassroom
    \/ CreateSchool
    \/ UpdateSchool
    \/ DeleteSchool
    \/ ListClassrooms
    \/ GetClassroom
    \/ GetClassroomStudents
    \/ ListStudents
    \/ GetStudent
    \/ GetStudentsByClassroom
    \/ GetStudentsBySchool
    \/ ListSchools
    \/ GetSchool
    \/ GetSchoolStats

SpecApi == Init /\ [][NextApi]_vars

(***************************************************************************)
(* The four entry points that move enrollment counters (create, transfer,  *)
(* update, delete of StudentManager), one persistence call at a time: the  *)
(* request loads its documents and runs the checks, then makes its writes  *)
(* in the order of the code.  One request is in flight at a time; the      *)
(* process can stop between two writes.                                    *)
(***************************************************************************)
TransferWritesDestinationFirst == <<"destination", "origin", "student">>

\* the writes of transfer after the checks: oldClassroom.save(),
\* newClassroom.save(), student.save()
TransferWrites == <<"origin", "destination", "student">>

\* the writes of update: the two counters when the classroom changes, then
\* student.save()
UpdateWrites == <<"origin", "destination", "student">>

WithdrawWritesCounterFirst == <<"origin", "student">>

\* the writes of delete: student.save(), then classroom.save()
WithdrawWrites == <<"student", "origin">>

\* the writes of create, the classroom being the destination
CreateWrites == <<"student", "destination">>

\* the writes of an order that the request makes
Planned(order, made) == SelectSeq(order, LAMBDA w : w \in made)

\* an update by token of student id with updateData passes every check
UpdatePassesChecks(token, id, updateData) ==
    /\ StudentExists(id)
    /\ canAccessSchool(token, ObjectId(students[id].schoolId))
    /\ ChangesClassroom(students[id], updateData)
       => /\ ClassroomExists(updateData.classroomId[1])
          /\ ~CapacityFull(classrooms[updateData.classroomId[1]])
          /\ SameSchool(classrooms[updateData.classroomId[1]], students[id])

\* a request past its checks: the writes to make, the position among them, the
\* student document to store and the classroom documents it loaded
InFlight(op, msg, plan, studentId, student, error, originId, destinationId) ==
    [pc |-> "write", step |-> 1, op |-> op, msg |-> msg, plan |-> plan,
     studentId |-> studentId, student |-> student, studentError |-> error,
     originId |-> originId,
     origin |-> IF ClassroomExists(originId) THEN Some(classrooms[originId]) ELSE None,
     destinationId |-> destinationId,
     destination |-> IF ClassroomExists(destinationId)
                     THEN Some(classrooms[destinationId]) ELSE None]

\* the checks of a request: out is what the operation answers when a check
\* refuses it, next the request in flight when all checks pass
Begin(op, passes, out, next) ==
    /\ req = Idle
    /\ ops < MaxOps
    /\ ops' = ops + 1
    /\ before' = [classrooms |-> classrooms, students |-> students]
    /\ UNCHANGED <<schools, classrooms, students>>
    /\ IF ~passes
       THEN /\ resp' = Request(op, out.code, out.msg)
            /\ UNCHANGED req
       ELSE /\ WithinBounds(out)
            /\ resp' = Request(op, "PENDING", "")
            /\ req' = next

BeginCreate ==
    \E token \in Tokens, schoolId \in SchoolRefs, classroomId \in ClassroomRefs :
        Begin("student.create",
              EnrollRejection(token, schoolId, classroomId).code = "",
              StudentCreate(token, schoolId, classroomId),
              InFlight("student.create", "Student enrolled successfully",
                       CreateWrites, Len(students) + 1,
                       NewStudent(schoolId, classroomId), NoError, 0, classroomId))

BeginTransfer ==
    \E token \in Tokens, id \in StudentRefs, newClassroomId \in ClassroomRefs,
       reason \in Reasons :
        Begin("student.transfer",
              TransferPassesChecks(token, id, newClassroomId),
              StudentTransfer(token, id, newClassroomId, reason),
              InFlight("student.transfer", "Student transferred successfully",
                       Planned(TransferWrites,
                               {"destination", "student"}
                                   \cup IF ClassroomExists(students[id].classroomId)
                                        THEN {"origin"} ELSE {}),
                       id,
                       [students[id] EXCEPT
                           !.transferHistory =
                               Append(@, TransferEntry(students[id].classroomId, reason)),
                           !.classroomId = newClassroomId],
                       NoError, students[id].classroomId, newClassroomId))

BeginUpdate ==
    \E token \in Tokens, id \in StudentRefs :
        \E updateData \in IF StudentExists(id) THEN StudentPatches ELSE {NoStudentPatch} :
            Begin("student.update",
                  UpdatePassesChecks(token, id, updateData),
                  StudentUpdate(token, id, updateData),
                  InFlight("student.update", "Student updated successfully",
                           Planned(UpdateWrites,
                                   {"student"}
                                       \cup (IF ChangesClassroom(students[id], updateData)
                                             THEN {"destination"} ELSE {})
                                       \cup (IF /\ ChangesClassroom(students[id], updateData)
                                                /\ ClassroomExists(students[id].classroomId)
                                             THEN {"origin"} ELSE {})),
                           id, AssignStudent(students[id], updateData),
                           StudentSaveError(updateData), students[id].classroomId,
                           IF updateData.classroomId # None
                           THEN updateData.classroomId[1] ELSE 0))

BeginDelete ==
    \E token \in Tokens, id \in StudentRefs :
        Begin("student.delete",
              /\ StudentExists(id)
              /\ canAccessSchool(token, ObjectId(students[id].schoolId)),
              StudentDelete(token, id),
              InFlight("student.delete", "Student withdrawn successfully",
                       Planned(WithdrawWrites,
                               {"student"}
                                   \cup IF ClassroomExists(students[id].classroomId)
                                        THEN {"origin"} ELSE {}),
                       id, [students[id] EXCEPT !.status = "withdrawn"], NoError,
                       students[id].classroomId, 0))

\* the write just made was the last one: the response is sent
Advance ==
    IF req.step = Len(req.plan)
    THEN /\ req' = Idle
         /\ resp' = Request(req.op, "OK", req.msg)
    ELSE /\ req' = [req EXCEPT !.step = @ + 1]
         /\ UNCHANGED resp

\* the save threw: the catch block of the dispatcher answers
Abort(error) ==
    /\ req' = Idle
    /\ resp' = Request(req.op, handleError(error).code, "")

\* oldClassroom.save() after the decrement; delete loads the classroom at this
\* point and saves it only when its counter is positive
WriteOrigin ==
    /\ req.pc = "write"
    /\ req.plan[req.step] = "origin"
    /\ LET saved == IF req.op = "student.delete"
                    THEN Withdrawn(classrooms[req.originId])
                    ELSE Decremented(req.origin[1])
       IN  IF ClassroomSaveError(saved) # NoError
           THEN Abort(ClassroomSaveError(saved)) /\ UNCHANGED classrooms
           ELSE /\ classrooms' = [classrooms EXCEPT
                       ![req.originId].currentEnrollment = saved.currentEnrollment]
                /\ Advance
    /\ UNCHANGED <<schools, students, before, ops>>

\* newClassroom.save() after the increment
WriteDestination ==
    /\ req.pc = "write"
    /\ req.plan[req.step] = "destination"
    /\ LET saved == Incremented(req.destination[1]) IN
       IF ClassroomSaveError(saved) # NoError
       THEN Abort(ClassroomSaveError(saved)) /\ UNCHANGED classrooms
       ELSE /\ classrooms' = [classrooms EXCEPT
                   ![req.destinationId].currentEnrollment = saved.currentEnrollment]
            /\ Advance
    /\ UNCHANGED <<schools, students, before, ops>>

\* Student.create(...) or student.save()
WriteStudent ==
    /\ req.pc = "write"
    /\ req.plan[req.step] = "student"
    /\ IF req.studentError # NoError
       THEN Abort(req.studentError) /\ UNCHANGED students
       ELSE /\ students' = IF req.studentId \in DOMAIN students
                           THEN [students EXCEPT ![req.studentId] = req.student]
                           ELSE Append(students, req.student)
            /\ Advance
    /\ UNCHANGED <<schools, classrooms, before, ops>>

\* the process stops between two writes of the request in flight
Crash ==
    /\ req.pc = "write"
    /\ req.step > 1
    /\ req' = [req EXCEPT !.pc = "crashed"]
    /\ UNCHANGED <<schools, classrooms, students, resp, before, ops>>

\* the process is started again: the request is gone, the stores are as the
\* writes made before the stop left them
Restart ==
    /\ req.pc = "crashed"
    /\ req' = Idle
    /\ resp' = Request(req.op, "CRASHED", "")
    /\ UNCHANGED <<schools, classrooms, students, before, ops>>

NextWrites ==
    \/ BeginCreate
    \/ BeginTransfer
    \/ BeginUpdate
    \/ BeginDelete
    \/ WriteOrigin
    \/ WriteDestination
    \/ WriteStudent
    \/ Crash
    \/ Restart
    \/ CreateClassroom
    \/ CreateSchool

SpecWrites == Init /\ [][NextWrites]_vars

(***************************************************************************)
(* The routes of the school, classroom and student routers: every request  *)
(* passes router.use(cortex.authenticate()) before the method of the       *)
(* manager is executed.                                                    *)
(***************************************************************************)
\* the requests served before the exploration of the routes stops
MaxRouteOps == 4

\* The Authorization header of a request: absent, without a second part
\* ("bare"), or carrying a token that is not a JWT ("malformed"), that is not
\* signed with the secret ("forged"), that is signed and past its expiry
\* ("expired"), or that is signed and current ("valid").  claims is the payload.
Credentials ==
    {[kind |-> kind, claims |-> None] : kind \in {"absent", "bare", "malformed"}}
        \cup {[kind |-> kind, claims |-> Some(Superadmin)] : kind \in {"forged", "expired"}}
        \cup {[kind |-> "valid", claims |-> Some(token)] : token \in Tokens}

\* authHeader && authHeader.split(' ')[1]
bearer(credential) == IF credential.kind \in {"absent", "bare"} THEN None ELSE Some(credential)

verifyTokenUnchecked(credential) ==
    IF credential.claims = None
    THEN [error |-> "JsonWebTokenError", decoded |-> None]
    ELSE [error |-> "", decoded |-> credential.claims]

\* jwt.verify(token, secret): the payload, or the error thrown; the signature
\* is checked before the expiry
verifyToken(credential) ==
    IF credential.kind \in {"malformed", "forged"}
    THEN [error |-> "JsonWebTokenError", decoded |-> None]
    ELSE IF credential.kind = "expired"
    THEN [error |-> "TokenExpiredError", decoded |-> None]
    ELSE [error |-> "", decoded |-> credential.claims]

\* the authenticate middleware: the 401 response it ends the request with, or
\* status 0 and the claim it attaches to the request before next()
authenticate(credential) ==
    IF bearer(credential) = None
    THEN [status |-> 401, code |-> "NO_TOKEN", token |-> None]
    ELSE LET verified == verifyToken(bearer(credential)[1]) IN
         IF verified.error = ""
         THEN [status |-> 0, code |-> "", token |-> verified.decoded[1]]
         ELSE IF verified.error = "TokenExpiredError"
         THEN [status |-> 401, code |-> "TOKEN_EXPIRED", token |-> None]
         ELSE IF verified.error = "JsonWebTokenError"
         THEN [status |-> 401, code |-> "INVALID_TOKEN", token |-> None]
         ELSE [status |-> 401, code |-> "AUTH_FAILED", token |-> None]

\* req.__token of a request that passed the middleware
Decoded(credential) == authenticate(credential).token

\* the middleware ended the request of route op: no handler after it runs
Refused(op, credential) ==
    /\ authenticate(credential).status = 401
    /\ req = Idle
    /\ ops < MaxRouteOps
    /\ ops' = MaxOps
    /\ resp' = [op |-> op, code |-> authenticate(credential).code, msg |-> "",
                status |-> authenticate(credential).status,
                credential |-> credential.kind, invoked |-> FALSE]
    /\ before' = [classrooms |-> classrooms, students |-> students]
    /\ UNCHANGED <<schools, classrooms, students, req>>

\* the middleware called next(): the method of the manager ran with the claim
\* and its outcome is stored and answered; a read ends the exploration
Handled(op, credential, out, read) ==
    /\ authenticate(credential).status # 401
    /\ req = Idle
    /\ ops < MaxRouteOps
    /\ ops' = IF read THEN MaxOps ELSE ops + 1
    /\ WithinBounds(out)
    /\ schools' = out.schools
    /\ classrooms' = out.classrooms
    /\ students' = out.students
    /\ resp' = [op |-> op, code |-> out.code, msg |-> out.msg,
                status |-> IF out.code = "OK" THEN 200 ELSE 0,
                credential |-> credential.kind, invoked |-> TRUE]
    /\ before' = [classrooms |-> classrooms, students |-> students]
    /\ UNCHANGED req

PostStudent ==
    \E credential \in Credentials :
        \/ Refused("student.create", credential)
        \/ \E schoolId \in SchoolRefs, classroomId \in ClassroomRefs :
               Handled("student.create", credential,
                       StudentCreate(Decoded(credential), schoolId, classroomId), FALSE)

PutStudent ==
    \E credential \in Credentials :
        \/ Refused("student.update", credential)
        \/ \E id \in StudentRefs :
               \E updateData \in IF StudentExists(id) THEN StudentPatches
                                 ELSE {NoStudentPatch} :
                   Handled("student.update", credential,
                           StudentUpdate(Decoded(credential), id, updateData), FALSE)

DeleteStudent ==
    \E credential \in Credentials :
        \/ Refused("student.delete", credential)
        \/ \E id \in StudentRefs :
               Handled("student.delete", credential,
                       StudentDelete(Decoded(credential), id), FALSE)

PostStudentTransfer ==
    \E credential \in Credentials :
        \/ Refused("student.transfer", credential)
        \/ \E id \in StudentRefs, newClassroomId \in ClassroomRefs, reason \in Reasons :
               Handled("student.transfer", credential,
                       StudentTransfer(Decoded(credential), id, newClassroomId, reason),
                       FALSE)

GetStudents ==
    \E credential \in Credentials :
        \/ Refused("student.getAll", credential)
        \/ \E page \in Pages, limit \in Limits, status \in Optional({"active"}),
              classroomId \in Optional({Str(i) : i \in ClassroomRefs}),
              schoolId \in Optional({Str(i) : i \in SchoolRefs}) :
               Handled("student.getAll", credential,
                       StudentGetAll(Decoded(credential), page, limit, status,
                                     classroomId, schoolId), TRUE)

GetStudentById ==
    \E credential \in Credentials :
        \/ Refused("student.getById", credential)
        \/ \E id \in StudentRefs :
               Handled("student.getById", credential,
                       StudentGetById(Decoded(credential), id), TRUE)

GetStudentsOfClassroom ==
    \E credential \in Credentials :
        \/ Refused("student.getByClassroom", credential)
        \/ \E classroomId \in ClassroomRefs :
               Handled("student.getByClassroom", credential,
                       StudentGetByClassroom(Decoded(credential), classroomId), TRUE)

GetStudentsOfSchool ==
    \E credential \in Credentials :
        \/ Refused("student.getBySchool", credential)
        \/ \E schoolId \in SchoolRefs :
               Handled("student.getBySchool", credential,
                       StudentGetBySchool(Decoded(credential), schoolId), TRUE)

PostClassroom ==
    \E credential \in Credentials :
        \/ Refused("classroom.create", credential)
        \/ \E schoolId \in SchoolRefs, capacity \in CapacityInputs,
              currentEnrollment \in Optional({MaxCapacity}) :
               Handled("classroom.create", credential,
                       ClassroomCreate(Decoded(credential), schoolId, capacity,
                                       currentEnrollment), FALSE)

PutClassroom ==
    \E credential \in Credentials :
        \/ Refused("classroom.update", credential)
        \/ \E id \in ClassroomRefs :
               \E updateData \in IF ClassroomExists(id) THEN ClassroomPatches
                                 ELSE {NoClassroomPatch} :
                   Handled("classroom.update", credential,
                           ClassroomUpdate(Decoded(credential), id, updateData), FALSE)

DeleteClassroomById ==
    \E credential \in Credentials :
        \/ Refused("classroom.delete", credential)
        \/ \E id \in ClassroomRefs :
               Handled("classroom.delete", credential,
                       ClassroomDelete(Decoded(credential), id), FALSE)

GetClassrooms ==
    \E credential \in Credentials :
        \/ Refused("classroom.getAll", credential)
        \/ \E page \in Pages, limit \in Limits,
              schoolId \in Optional({Str(i) : i \in SchoolRefs}) :
               Handled("classroom.getAll", credential,
                       ClassroomGetAll(Decoded(credential), page, limit, schoolId), TRUE)

GetClassroomById ==
    \E credential \in Credentials :
        \/ Refused("classroom.getById", credential)
        \/ \E id \in ClassroomRefs :
               Handled("classroom.getById", credential,
                       ClassroomGetById(Decoded(credential), id), TRUE)

GetStudentsInClassroom ==
    \E credential \in Credentials :
        \/ Refused("classroom.getStudents", credential)
        \/ \E id \in ClassroomRefs :
               Handled("classroom.getStudents", credential,
                       ClassroomGetStudents(Decoded(credential), id), TRUE)

PostSchool ==
    \E credential \in Credentials :
        \/ Refused("school.create", credential)
        \/ \E valid \in BOOLEAN :
               Handled("school.create", credential,
                       SchoolCreate(Decoded(credential), valid), FALSE)

PutSchool ==
    \E credential \in Credentials :
        \/ Refused("school.update", credential)
        \/ \E id \in SchoolRefs, updateData \in SchoolPatches, valid \in BOOLEAN :
               Handled("school.update", credential,
                       SchoolUpdate(Decoded(credential), id, updateData, valid), FALSE)

DeleteSchoolById ==
    \E credential \in Credentials :
        \/ Refused("school.delete", credential)
        \/ \E id \in SchoolRefs :
               Handled("school.delete", credential,
                       SchoolDelete(Decoded(credential), id), FALSE)

GetSchools ==
    \E credential \in Credentials :
        \/ Refused("school.getAll", credential)
        \/ \E page \in Pages, limit \in Limits :
               Handled("school.getAll", credential,
                       SchoolGetAll(Decoded(credential), page, limit), TRUE)

GetSchoolById ==
    \E credential \in Credentials :
        \/ Refused("school.getById", credential)
        \/ \E id \in SchoolRefs :
               Handled("school.getById", credential,
                       SchoolGetById(Decoded(credential), id), TRUE)

GetStatsOfSchool ==
    \E credential \in Credentials :
        \/ Refused("school.getStats", credential)
        \/ \E id \in SchoolRefs :
               Handled("school.getStats", credential,
                       SchoolGetStats(Decoded(credential), id), TRUE)

NextRoutes ==
    \/ PostStudent
    \/ PutStudent
    \/ DeleteStudent
    \/ PostStudentTransfer
    \/ GetStudents
    \/ GetStudentById
    \/ GetStudentsOfClassroom
    \/ GetStudentsOfSchool
    \/ PostClassroom
    \/ PutClassroom
    \/ DeleteClassroomById
    \/ GetClassrooms
    \/ GetClassroomById
    \/ GetStudentsInClassroom
    \/ PostSchool
    \/ PutSchool
    \/ DeleteSchoolById
    \/ GetSchools
    \/ GetSchoolById
    \/ GetStatsOfSchool

SpecRoutes == Init /\ [][NextRoutes]_vars

(***************************************************************************)
(* The helpers of the dispatcher called on their own: canAccessSchool on   *)
(* any claim (missing, of any role, with or without a schoolId, the        *)
(* schoolId a string or an ObjectId) and any target.                       *)
(***************************************************************************)
Roles == {"superadmin", "school_admin", "teacher"}

IdValues == {Str(n) : n \in SchoolRefs} \cup {ObjectId(n) : n \in SchoolRefs}

Claims == {None} \cup [role : Roles, schoolId : Optional(IdValues)]

CheckAccess ==
    /\ \E token \in Claims, schoolId \in IdValues :
           resp' = [op |-> "canAccessSchool", code |-> "OK", msg |-> "",
                    token |-> token, schoolId |-> schoolId,
                    returned |-> canAccessSchool(token, schoolId)]
    /\ UNCHANGED <<schools, classrooms, students, before, ops, req>>

\* statusMap of getStatusCode
statusMap ==
    [code \in {"VALIDATION_ERROR", "INVALID_INPUT", "INVALID_ID"} |-> 400]
    @@ [code \in {"NO_TOKEN", "INVALID_TOKEN", "TOKEN_EXPIRED",
                  "INVALID_CREDENTIALS", "AUTH_FAILED"} |-> 401]
    @@ [code \in {"FORBIDDEN", "ACCESS_DENIED", "NO_PERMISSION"} |-> 403]
    @@ [code \in {"NOT_FOUND", "USER_NOT_FOUND", "SCHOOL_NOT_FOUND"} |-> 404]
    @@ [code \in {"DUPLICATE", "DUPLICATE_ERROR", "USER_EXISTS", "CONFLICT"} |-> 409]
    @@ [code \in {"BUSINESS_ERROR", "CAPACITY_FULL", "INVALID_OPERATION"} |-> 422]

\* statusMap[code] || 400
getStatusCode(code) == IF code \in DOMAIN statusMap THEN statusMap[code] ELSE 400

\* the codes the managers return in { error, code }
ManagerCodes ==
    {"FORBIDDEN", "NOT_FOUND", "INVALID_OPERATION", "CAPACITY_FULL", "BUSINESS_ERROR",
     "USER_EXISTS", "INVALID_CREDENTIALS", "ACCOUNT_INACTIVE", "NO_AUTH",
     "USER_NOT_FOUND", "INVALID_PASSWORD"}

\* what a manager method resolves to: a payload, or { error, code }
Results ==
    {[error |-> FALSE, code |-> ""]}
        \cup {[error |-> TRUE, code |-> code] :
                 code \in DOMAIN statusMap \cup ManagerCodes \cup {"TEAPOT"}}

\* the response executeManager sends for a result
Render ==
    /\ \E result \in Results :
           resp' = [op |-> "render", code |-> result.code, msg |-> "",
                    status |-> IF result.error THEN getStatusCode(result.code) ELSE 200,
                    success |-> ~result.error]
    /\ UNCHANGED <<schools, classrooms, students, before, ops, req>>

\* the paths of the schemas that carry a validator
ValidatedPaths == {"capacity", "currentEnrollment", "transferHistory", "name"}

\* the exceptions a manager method rejects with: a ValidationError of save or
\* create, a duplicate key of a unique index, another error of the server, the
\* CastError of a query on a malformed identifier, the Error of the pre-save
\* hook, a TypeError
Exceptions ==
    {ValidationError(paths) : paths \in (SUBSET ValidatedPaths) \ {{}}}
        \cup {[name |-> "MongoServerError", code |-> DuplicateKey, errors |-> {}],
              [name |-> "MongoServerError", code |-> DuplicateKey + 1, errors |-> {}]}
        \cup {Failure("CastError"), Failure("Error"), Failure("TypeError")}

\* the catch block of executeManager answers the exception of a manager method
Catch ==
    /\ \E error \in Exceptions :
           resp' = [op |-> "catch", error |-> error,
                    code |-> handleError(error).code, msg |-> "",
                    status |-> handleError(error).status,
                    details |-> handleError(error).details,
                    success |-> FALSE]
    /\ UNCHANGED <<schools, classrooms, students, before, ops, req>>

\* The fields a caller can name in the body, the query string or the route of
\* a request, the metadata key among them, and the values they carry: objects
\* shaped like a claim, as a JSON body or a nested query string can state.
BagFields == {"__token", "schoolId"}

BagValues == {Superadmin, SchoolAdmin(1)}

Bags == UNION {[D -> BagValues] : D \in SUBSET BagFields}

\* { __token: req.__token, ...req.body, ...req.query, ...req.params }
paramsCallerLast(body, query, route, token) ==
    route @@ query @@ body @@ ("__token" :> token)

\* the params object of executeManager: the spreads of body, query and route
\* parameters in this order, a later key replacing an earlier one, then the
\* metadata keys, of which __token is kept
params(body, query, route, token) ==
    ("__token" :> token) @@ route @@ query @@ body

\* executeManager prepares the params of a request that passed authenticate
ExecuteManager ==
    /\ \E credential \in Credentials, body \in Bags, query \in Bags, route \in Bags :
           /\ authenticate(credential).status = 0
           /\ resp' = [op |-> "executeManager", code |-> "OK", msg |-> "",
                       token |-> authenticate(credential).token,
                       body |-> body, query |-> query, route |-> route,
                       params |-> params(body, query, route,
                                         authenticate(credential).token)]
    /\ UNCHANGED <<schools, classrooms, students, before, ops, req>>

NextDispatcher == CheckAccess \/ Render \/ Catch \/ ExecuteManager

SpecDispatcher == Init /\ [][NextDispatcher]_vars

(***************************************************************************)
(* Requests served at the same time.  Node runs one handler until its next *)
(* await, so the handlers of two requests interleave at their persistence  *)
(* calls: each findById hands the request a copy of the stored document,   *)
(* each save() sets the modified paths of the copy in the stored document. *)
(* The stores start as sequential requests left them: one school with its  *)
(* classrooms, no student yet.                                             *)
(***************************************************************************)
\* the requests served before the exploration stops
MaxRequests == 3

\* the requests in flight at the same time
Slots == 1..2

\* the capacities a validated body states
Capacities == 1..MaxCapacity

Free ==
    [pc |-> "idle", op |-> "none", studentId |-> 0, student |-> None,
     originId |-> 0, origin |-> None, destinationId |-> 0, destination |-> None,
     entry |-> None, modified |-> FALSE]

InitConcurrent ==
    /\ schools = <<[isActive |-> TRUE]>>
    /\ classrooms \in [1..MaxClassrooms ->
                          {NewClassroom(1, capacity, None) : capacity \in Capacities}]
    /\ students = <<>>
    /\ resp = [r \in Slots |-> [op |-> "none", code |-> "OK"]]
    /\ before = [classrooms |-> classrooms, students |-> students]
    /\ ops = 0
    /\ req = [r \in Slots |-> Free]

\* a request arrives on a free slot
Arrives(r) ==
    /\ req[r].pc = "idle"
    /\ ops < MaxRequests
    /\ ops' = ops + 1

\* the handler of slot r returns: the response is sent and the slot is free
Answered(r, op, code) ==
    /\ resp' = [resp EXCEPT ![r] = [op |-> op, code |-> code]]
    /\ req' = [req EXCEPT ![r] = Free]

\* the handler of slot r goes on to its next persistence call
Awaits(r, op, pc, fields) ==
    /\ req' = [req EXCEPT ![r] = [fields EXCEPT !.pc = pc, !.op = op]]
    /\ UNCHANGED resp

WriteCounterIncrementally(id, copy, saved) ==
    [classrooms EXCEPT ![id].currentEnrollment =
        @ + (saved.currentEnrollment - copy.currentEnrollment)]

\* classroom.save() after currentEnrollment was changed on the copy: the value
\* of the copy replaces the stored one
WriteCounter(id, copy, saved) ==
    [classrooms EXCEPT ![id].currentEnrollment = saved.currentEnrollment]

\* create, up to Student.create: the classroom is read and checked
EnrollBegin(r) ==
    /\ Arrives(r)
    /\ \E token \in Tokens, schoolId \in SchoolRefs, classroomId \in ClassroomRefs :
           LET rejection == EnrollRejection(token, schoolId, classroomId) IN
           IF rejection.code # ""
           THEN Answered(r, "student.create", rejection.code)
           ELSE /\ Len(students)
                     + Cardinality({q \in Slots : req[q].pc = "create"}) < MaxStudents
                /\ Awaits(r, "student.create", "create",
                          [Free EXCEPT !.originId = schoolId,
                                       !.destinationId = classroomId,
                                       !.destination = Some(classrooms[classroomId])])
    /\ UNCHANGED <<schools, classrooms, students, before>>

\* Student.create of create
EnrollCreate(r) ==
    /\ req[r].pc = "create"
    /\ students' = Append(students, NewStudent(req[r].originId, req[r].destinationId))
    /\ Awaits(r, req[r].op, "saveDestination", req[r])
    /\ UNCHANGED <<schools, classrooms, before, ops>>

\* the save of the classroom the student enters, in create and in transfer
SaveDestination(r) ==
    /\ req[r].pc = "saveDestination"
    /\ LET copy == req[r].destination[1]
           saved == Incremented(copy)
           error == ClassroomSaveError(saved) IN
       IF error # NoError
       THEN /\ Answered(r, req[r].op, handleError(error).code)
            /\ UNCHANGED classrooms
       ELSE /\ classrooms' = WriteCounter(req[r].destinationId, copy, saved)
            /\ IF req[r].op = "student.create"
               THEN Answered(r, req[r].op, "OK")
               ELSE Awaits(r, req[r].op, "saveStudent", req[r])
    /\ UNCHANGED <<schools, students, before, ops>>

\* delete, up to student.save(): the student is read and the access checked
WithdrawBegin(r) ==
    /\ Arrives(r)
    /\ \E token \in Tokens, id \in StudentRefs :
           IF ~StudentExists(id)
           THEN Answered(r, "student.delete", "NOT_FOUND")
           ELSE IF ~canAccessSchool(token, ObjectId(students[id].schoolId))
           THEN Answered(r, "student.delete", "FORBIDDEN")
           ELSE Awaits(r, "student.delete", "saveStudent",
                       [Free EXCEPT !.studentId = id,
                                    !.student = Some([students[id] EXCEPT !.status = "withdrawn"])])
    /\ UNCHANGED <<schools, classrooms, students, before>>

\* student.save(): of delete, which sets the status; of transfer, which sets
\* the classroomId and pushes the entry to the transferHistory
SaveStudent(r) ==
    /\ req[r].pc = "saveStudent"
    /\ IF req[r].op = "student.delete"
       THEN /\ students' = [students EXCEPT ![req[r].studentId].status = "withdrawn"]
            /\ Awaits(r, req[r].op, "readOrigin", req[r])
       ELSE /\ students' = [students EXCEPT
                   ![req[r].studentId].classroomId = req[r].destinationId,
                   ![req[r].studentId].transferHistory = Append(@, req[r].entry[1])]
            /\ Answered(r, req[r].op, "OK")
    /\ UNCHANGED <<schools, classrooms, before, ops>>

\* Classroom.findById(student.classroomId), of delete and of transfer
ReadOrigin(r) ==
    /\ req[r].pc = "readOrigin"
    /\ LET id == req[r].student[1].classroomId
           found == IF ClassroomExists(id) THEN Some(classrooms[id]) ELSE None IN
       IF req[r].op = "student.delete"
       THEN IF found # None /\ found[1].currentEnrollment > 0
            THEN Awaits(r, req[r].op, "saveOrigin",
                        [req[r] EXCEPT !.originId = id, !.origin = found])
            ELSE Answered(r, req[r].op, "OK")
       ELSE Awaits(r, req[r].op, "readDestination",
                   [req[r] EXCEPT !.originId = id, !.origin = found,
                                  !.entry = Some(TransferEntry(id, req[r].entry))])
    /\ UNCHANGED <<schools, classrooms, students, before, ops>>

\* the save of the classroom the student leaves, in delete and in transfer
SaveOrigin(r) ==
    /\ req[r].pc = "saveOrigin"
    /\ LET copy == req[r].origin[1]
           saved == Decremented(copy)
           error == ClassroomSaveError(saved) IN
       IF error # NoError
       THEN /\ Answered(r, req[r].op, handleError(error).code)
            /\ UNCHANGED classrooms
       ELSE /\ classrooms' = WriteCounter(req[r].originId, copy, saved)
            /\ IF req[r].op = "student.delete"
               THEN Answered(r, req[r].op, "OK")
               ELSE Awaits(r, req[r].op, "saveDestination", req[r])
    /\ UNCHANGED <<schools, students, before, ops>>

\* transfer, up to the read of the old classroom
TransferBegin(r) ==
    /\ Arrives(r)
    /\ \E token \in Tokens, id \in StudentRefs, newClassroomId \in ClassroomRefs,
          reason \in Reasons :
           IF ~StudentExists(id)
           THEN Answered(r, "student.transfer", "NOT_FOUND")
           ELSE IF ~canAccessSchool(token, ObjectId(students[id].schoolId))
           THEN Answered(r, "student.transfer", "FORBIDDEN")
           ELSE Awaits(r, "student.transfer", "readOrigin",
                       [Free EXCEPT !.studentId = id,
                                    !.student = Some(students[id]),
                                    !.destinationId = newClassroomId,
                                    !.entry = reason])
    /\ UNCHANGED <<schools, classrooms, students, before>>

\* Classroom.findById(newClassroomId) of transfer, and the checks after it
ReadDestination(r) ==
    /\ req[r].pc = "readDestination"
    /\ LET id == req[r].destinationId
           student == req[r].student[1] IN
       IF ~ClassroomExists(id)
       THEN Answered(r, req[r].op, "NOT_FOUND")
       ELSE IF ~SameSchool(classrooms[id], student)
       THEN Answered(r, req[r].op, "INVALID_OPERATION")
       ELSE IF AlreadyInClassroom(student, id)
       THEN Answered(r, req[r].op, "INVALID_OPERATION")
       ELSE IF CapacityFull(classrooms[id])
       THEN Answered(r, req[r].op, "CAPACITY_FULL")
       ELSE Awaits(r, req[r].op,
                   IF req[r].origin # None THEN "saveOrigin" ELSE "saveDestination",
                   [req[r] EXCEPT !.destination = Some(classrooms[id])])
    /\ UNCHANGED <<schools, classrooms, students, before, ops>>

\* update of a classroom with a capacity in the body, up to classroom.save()
CapacityBegin(r) ==
    /\ Arrives(r)
    /\ \E token \in Tokens, id \in ClassroomRefs, capacity \in Capacities :
           IF ~ClassroomExists(id)
           THEN Answered(r, "classroom.update", "NOT_FOUND")
           ELSE IF ~canAccessSchool(token, ObjectId(classrooms[id].schoolId))
           THEN Answered(r, "classroom.update", "FORBIDDEN")
           ELSE IF capacity < classrooms[id].currentEnrollment
           THEN Answered(r, "classroom.update", "BUSINESS_ERROR")
           ELSE Awaits(r, "classroom.update", "saveCapacity",
                       [Free EXCEPT
                           !.destinationId = id,
                           !.destination =
                               Some([classrooms[id] EXCEPT !.capacity = capacity]),
                           !.modified = (capacity # classrooms[id].capacity)])
    /\ UNCHANGED <<schools, classrooms, students, before>>

\* classroom.save() of update: capacity is written when the assignment changed
\* it on the copy; validators and pre-save hook see the copy
SaveCapacity(r) ==
    /\ req[r].pc = "saveCapacity"
    /\ LET saved == req[r].destination[1]
           error == ClassroomSaveError(saved) IN
       IF error # NoError
       THEN /\ Answered(r, req[r].op, handleError(error).code)
            /\ UNCHANGED classrooms
       ELSE /\ classrooms' =
                   IF req[r].modified
                   THEN [classrooms EXCEPT ![req[r].destinationId].capacity = saved.capacity]
                   ELSE classrooms
            /\ Answered(r, req[r].op, "OK")
    /\ UNCHANGED <<schools, students, before, ops>>

NextConcurrent ==
    \E r \in Slots :
        \/ EnrollBegin(r)
        \/ EnrollCreate(r)
        \/ SaveDestination(r)
        \/ WithdrawBegin(r)
        \/ SaveStudent(r)
        \/ ReadOrigin(r)
        \/ SaveOrigin(r)
        \/ TransferBegin(r)
        \/ ReadDestination(r)
        \/ CapacityBegin(r)
        \/ SaveCapacity(r)

SpecConcurrent == InitConcurrent /\ [][NextConcurrent]_vars

(***************************************************************************)
(* Properties.  The vocabulary of the claims, stated on the stores alone.  *)
(***************************************************************************)
\* the caller may act on the school: a superadmin, or the admin of that school
Authorized(token, schoolId) ==
    \/ token.role = "superadmin"
    \/ /\ token.role = "school_admin"
       /\ token.schoolId # <<>>
       /\ token.schoolId[1][2] = schoolId

\* the classroom has no free seat
NoFreeSeat(c) == classrooms[c].currentEnrollment >= classrooms[c].capacity

\* the number of status=active students whose classroomId is c
ActiveIn(c) ==
    Cardinality({s \in DOMAIN students :
        students[s].classroomId = c /\ students[s].status = "active"})

CountersMatchRoster ==
    \A c \in DOMAIN classrooms : classrooms[c].currentEnrollment = ActiveIn(c)

NothingWritten == UNCHANGED <<schools, classrooms, students>>

StudentOps == {"student.create", "student.update", "student.transfer", "student.delete"}

\* C1: after any sequence of completed operations every stored classroom has
\* 0 <= currentEnrollment <= capacity.
C1_EnrollmentWithinCapacity ==
    \A c \in DOMAIN classrooms :
        /\ 0 <= classrooms[c].currentEnrollment
        /\ classrooms[c].currentEnrollment <= classrooms[c].capacity

\* a capacity was lowered onto the enrollment of a classroom that has students
C1_Witness ==
    /\ resp.op = "classroom.update"
    /\ resp.code = "OK"
    /\ \E c \in DOMAIN classrooms :
           /\ before.classrooms[c].capacity > classrooms[c].capacity
           /\ classrooms[c].currentEnrollment = classrooms[c].capacity
           /\ ActiveIn(c) > 0

\* C2: a student create, update, transfer or delete that starts with every
\* currentEnrollment equal to the number of active students of the classroom
\* ends with them equal (so the counters of a school sum to its active students).
C2_CountersFollowRoster ==
    [][(resp'.op \in StudentOps /\ CountersMatchRoster) => CountersMatchRoster']_vars

\* C3 as stated: an enroll or a transfer whose target classroom is full returns
\* CAPACITY_FULL and writes nothing, whoever calls it and whatever the school.
C3_FullAlwaysCapacityFull ==
    [][/\ resp'.op = "student.create" =>
            \A token \in Tokens, schoolId \in SchoolRefs, classroomId \in ClassroomRefs :
                (/\ StudentCreateStep(token, schoolId, classroomId)
                 /\ ClassroomExists(classroomId)
                 /\ NoFreeSeat(classroomId))
                    => (resp'.code = "CAPACITY_FULL" /\ NothingWritten)
       /\ resp'.op = "student.transfer" =>
            \A token \in Tokens, id \in StudentRefs, newClassroomId \in ClassroomRefs,
               reason \in Reasons :
                (/\ StudentTransferStep(token, id, newClassroomId, reason)
                 /\ ClassroomExists(newClassroomId)
                 /\ NoFreeSeat(newClassroomId))
                    => (resp'.code = "CAPACITY_FULL" /\ NothingWritten)]_vars

\* C3 amended: an enroll or a transfer whose target classroom is full writes
\* nothing, and returns CAPACITY_FULL when the earlier checks pass: for an enroll
\* the caller can access the stated school and the classroom belongs to it, for a
\* transfer the student exists, the caller can access the student's school and
\* the target is another classroom of that school.
C3_FullRejectedAfterChecks ==
    [][/\ resp'.op = "student.create" =>
            \A token \in Tokens, schoolId \in SchoolRefs, classroomId \in ClassroomRefs :
                (/\ StudentCreateStep(token, schoolId, classroomId)
                 /\ ClassroomExists(classroomId)
                 /\ NoFreeSeat(classroomId))
                    => /\ NothingWritten
                       /\ (/\ Authorized(token, schoolId)
                           /\ classrooms[classroomId].schoolId = schoolId)
                              => resp'.code = "CAPACITY_FULL"
       /\ resp'.op = "student.transfer" =>
            \A token \in Tokens, id \in StudentRefs, newClassroomId \in ClassroomRefs,
               reason \in Reasons :
                (/\ StudentTransferStep(token, id, newClassroomId, reason)
                 /\ ClassroomExists(newClassroomId)
                 /\ NoFreeSeat(newClassroomId))
                    => /\ NothingWritten
                       /\ (/\ StudentExists(id)
                           /\ Authorized(token, students[id].schoolId)
                           /\ classrooms[newClassroomId].schoolId = students[id].schoolId
                           /\ students[id].classroomId # newClassroomId)
                              => resp'.code = "CAPACITY_FULL"]_vars

\* a transfer was refused for want of a seat
C3_Witness == resp.op = "student.transfer" /\ resp.code = "CAPACITY_FULL"

\* the roster is the one before the request plus one active student of the school
\* and the classroom, with no transfer behind it
OneEnrolled(schoolId, c) ==
    /\ Len(students) = Len(before.students) + 1
    /\ SubSeq(students, 1, Len(before.students)) = before.students
    /\ students[Len(students)].schoolId = schoolId
    /\ students[Len(students)].classroomId = c
    /\ students[Len(students)].status = "active"
    /\ students[Len(students)].transferHistory = <<>>

\* C4: a successful enroll stores the student first (one record, active, of the
\* stated school and classroom) and then raises the counter of that classroom by
\* one; nothing else changes.  It succeeds only for a caller with access, on a
\* classroom of the stated school with a free seat.
C4_EnrollStoresThenCounts ==
    /\ req.pc = "write" =>
        LET c == req.classroomId[1] IN
        /\ Authorized(req.token[1], req.schoolId[1])
        /\ c \in DOMAIN before.classrooms
        /\ before.classrooms[c].schoolId = req.schoolId[1]
        /\ before.classrooms[c].currentEnrollment < before.classrooms[c].capacity
        /\ classrooms = before.classrooms
        /\ \/ students = before.students
           \/ OneEnrolled(req.schoolId[1], c)
    /\ (req = Idle /\ resp.op = "student.create" /\ resp.code = "OK") =>
        LET c == students[Len(students)].classroomId IN
        /\ OneEnrolled(classrooms[c].schoolId, c)
        /\ classrooms = [before.classrooms EXCEPT ![c].currentEnrollment = @ + 1]

\* an enroll went through both writes, next to a student enrolled earlier
C4_Witness ==
    /\ req = Idle
    /\ resp.op = "student.create"
    /\ resp.code = "OK"
    /\ Len(students) = 2
    /\ Len(before.students) = 1

\* C5: a successful transfer of a student from classroom X to classroom Y lowers
\* the counter of X by one, raises the counter of Y by one, appends one entry with
\* the label of X and the reason given ("Classroom transfer" without one) to the
\* transferHistory, sets the classroomId to Y and changes nothing else; X and Y
\* are different classrooms and Y is of the student's school.
C5_TransferMovesOneSeat ==
    [][(resp'.op = "student.transfer" /\ resp'.code = "OK") =>
        \A token \in Tokens, id \in StudentRefs, newClassroomId \in ClassroomRefs,
           reason \in Reasons :
            StudentTransferStep(token, id, newClassroomId, reason) =>
                LET X == students[id].classroomId
                    Y == newClassroomId
                    entry == [fromSchool |-> <<"classroom", X>>,
                              reason |-> IF reason = <<>> THEN "Classroom transfer"
                                         ELSE reason[1]]
                IN  /\ X # Y
                    /\ classrooms[Y].schoolId = students[id].schoolId
                    /\ classrooms' = [classrooms EXCEPT
                           ![X].currentEnrollment = @ - 1,
                           ![Y].currentEnrollment = @ + 1]
                    /\ students' = [students EXCEPT
                           ![id].transferHistory = Append(@, entry),
                           ![id].classroomId = Y]
                    /\ schools' = schools]_vars

\* a student was moved with the reason "promotion" out of a classroom that
\* counted two students
C5_Witness ==
    /\ resp.op = "student.transfer"
    /\ resp.code = "OK"
    /\ \E s \in DOMAIN students :
           /\ students[s].classroomId # before.students[s].classroomId
           /\ students[s].transferHistory =
                 <<[fromSchool |-> <<"classroom", before.students[s].classroomId>>,
                    reason |-> "promotion"]>>
           /\ before.classrooms[before.students[s].classroomId].currentEnrollment = 2
           /\ classrooms[before.students[s].classroomId].currentEnrollment = 1

C7_OtherSchoolAlwaysInvalid ==
    [][resp'.op = "student.transfer" =>
        \A token \in Tokens, id \in StudentRefs, newClassroomId \in ClassroomRefs,
           reason \in Reasons :
            (/\ StudentTransferStep(token, id, newClassroomId, reason)
             /\ StudentExists(id)
             /\ ClassroomExists(newClassroomId)
             /\ classrooms[newClassroomId].schoolId # students[id].schoolId)
                => /\ resp'.code = "INVALID_OPERATION"
                   /\ resp'.msg = "Can only transfer students within the same school"
                   /\ NothingWritten]_vars

\* C7 amended: a transfer whose destination classroom is of a school other than
\* the student's writes nothing, whatever the free capacity of the destination;
\* it returns INVALID_OPERATION "same school" when the caller can access the
\* student's school, and FORBIDDEN when not.
C7_OtherSchoolRejected ==
    [][resp'.op = "student.transfer" =>
        \A token \in Tokens, id \in StudentRefs, newClassroomId \in ClassroomRefs,
           reason \in Reasons :
            (/\ StudentTransferStep(token, id, newClassroomId, reason)
             /\ StudentExists(id)
             /\ ClassroomExists(newClassroomId)
             /\ classrooms[newClassroomId].schoolId # students[id].schoolId)
                => /\ NothingWritten
                   /\ IF ~Authorized(token, students[id].schoolId)
                      THEN resp'.code = "FORBIDDEN"
                      ELSE /\ resp'.code = "INVALID_OPERATION"
                           /\ resp'.msg =
                                "Can only transfer students within the same school"]_vars

\* a transfer to another school was refused while a classroom of another school
\* than the student's had a free seat
C7_Witness ==
    /\ resp.op = "student.transfer"
    /\ resp.msg = "Can only transfer students within the same school"
    /\ \E s \in DOMAIN students, c \in DOMAIN classrooms :
           /\ classrooms[c].schoolId # students[s].schoolId
           /\ classrooms[c].currentEnrollment < classrooms[c].capacity

\* C8: an enroll is refused, with nothing written, with FORBIDDEN when the caller
\* cannot access the stated school, else with NOT_FOUND when the classroom does
\* not exist, else with INVALID_OPERATION when the classroom is of another school.
C8_EnrollChecksInOrder ==
    [][resp'.op = "student.create" =>
        \A token \in Tokens, schoolId \in SchoolRefs, classroomId \in ClassroomRefs :
            StudentCreateStep(token, schoolId, classroomId) =>
                IF ~Authorized(token, schoolId)
                THEN resp'.code = "FORBIDDEN" /\ NothingWritten
                ELSE IF classroomId \notin DOMAIN classrooms
                THEN resp'.code = "NOT_FOUND" /\ NothingWritten
                ELSE IF classrooms[classroomId].schoolId # schoolId
                THEN resp'.code = "INVALID_OPERATION" /\ NothingWritten
                ELSE resp'.code \notin {"FORBIDDEN", "NOT_FOUND", "INVALID_OPERATION"}]_vars

\* an enroll into a classroom of another school was refused
C8_Witness ==
    /\ resp.op = "student.create"
    /\ resp.code = "INVALID_OPERATION"
    /\ resp.msg = "Classroom does not belong to this school"

\* C9: a withdraw of a stored student by a caller with access to the student's
\* school succeeds, sets the status to withdrawn, keeps the record with its
\* transferHistory, lowers the counter of the student's classroom by one when it
\* is positive, and changes nothing else.
C9_WithdrawKeepsRecord ==
    [][resp'.op = "student.delete" =>
        \A token \in Tokens, id \in StudentRefs :
            (/\ StudentDeleteStep(token, id)
             /\ StudentExists(id)
             /\ Authorized(token, students[id].schoolId))
                => LET c == students[id].classroomId IN
                   /\ resp'.code = "OK"
                   /\ students' = [students EXCEPT ![id].status = "withdrawn"]
                   /\ classrooms' =
                        IF classrooms[c].currentEnrollment > 0
                        THEN [classrooms EXCEPT ![c].currentEnrollment = @ - 1]
                        ELSE classrooms
                   /\ schools' = schools]_vars

\* an active student with a transfer behind it was withdrawn and its classroom
\* counts one student less
C9_Witness ==
    /\ resp.op = "student.delete"
    /\ resp.code = "OK"
    /\ \E s \in DOMAIN students :
           /\ before.students[s].status = "active"
           /\ students[s].status = "withdrawn"
           /\ Len(students[s].transferHistory) = 1
           /\ classrooms[students[s].classroomId].currentEnrollment + 1 =
                 before.classrooms[students[s].classroomId].currentEnrollment

\* C10: a withdraw of a student whose classroom counter is 0 succeeds and leaves
\* the counter at 0, and no withdraw leaves a negative counter.
C10_WithdrawFlooredAtZero ==
    [][resp'.op = "student.delete" =>
        /\ \A c \in DOMAIN classrooms' : classrooms'[c].currentEnrollment >= 0
        /\ \A token \in Tokens, id \in StudentRefs :
            (/\ StudentDeleteStep(token, id)
             /\ StudentExists(id)
             /\ Authorized(token, students[id].schoolId)
             /\ classrooms[students[id].classroomId].currentEnrollment = 0)
                => /\ resp'.code = "OK"
                   /\ students'[id].status = "withdrawn"
                   /\ classrooms'[students[id].classroomId].currentEnrollment = 0]_vars

\* an active student was withdrawn from a classroom whose counter was already 0
C10_Witness ==
    /\ resp.op = "student.delete"
    /\ resp.code = "OK"
    /\ \E s \in DOMAIN students :
           /\ before.students[s].status = "active"
           /\ students[s].status = "withdrawn"
           /\ before.classrooms[students[s].classroomId].currentEnrollment = 0
           /\ classrooms[students[s].classroomId].currentEnrollment = 0

ClassStatus(code) ==
    IF code \in {"VALIDATION_ERROR", "INVALID_INPUT", "INVALID_ID"} THEN 400
    ELSE IF code \in {"NO_TOKEN", "INVALID_TOKEN", "TOKEN_EXPIRED", "INVALID_CREDENTIALS",
                      "AUTH_FAILED", "NO_AUTH"} THEN 401
    ELSE IF code \in {"FORBIDDEN", "ACCESS_DENIED", "NO_PERMISSION"} THEN 403
    ELSE IF code \in {"NOT_FOUND", "USER_NOT_FOUND", "SCHOOL_NOT_FOUND"} THEN 404
    ELSE IF code \in {"DUPLICATE", "DUPLICATE_ERROR", "USER_EXISTS", "CONFLICT"} THEN 409
    ELSE IF code \in {"BUSINESS_ERROR", "CAPACITY_FULL", "INVALID_OPERATION"} THEN 422
    ELSE 400

\* C20: every result is rendered with the status of the class of its code (400
\* for a code of no class), and a result without an error with 200 and success.
C20_StatusOfClass ==
    resp.op = "render" =>
        IF resp.code = ""
        THEN resp.status = 200 /\ resp.success
        ELSE resp.status = ClassStatus(resp.code) /\ ~resp.success

Untouched(out) ==
    /\ out.schools = schools
    /\ out.classrooms = classrooms
    /\ out.students = students

C14_DeleteBlockedByActiveStudents ==
    [][resp'.op = "classroom.delete" =>
        \A token \in Tokens, id \in ClassroomRefs :
            (/\ ClassroomDeleteStep(token, id)
             /\ ClassroomExists(id)
             /\ Authorized(token, classrooms[id].schoolId))
                => IF ActiveIn(id) > 0
                   THEN /\ resp'.code = "BUSINESS_ERROR"
                        /\ resp'.msg[2] = ActiveIn(id)
                        /\ NothingWritten
                   ELSE /\ resp'.code = "OK"
                        /\ classrooms' = [classrooms EXCEPT ![id].isActive = FALSE]
                        /\ UNCHANGED <<schools, students>>]_vars

\* the delete of an active classroom with one active student was refused
C14_Witness ==
    /\ resp.op = "classroom.delete"
    /\ resp.code = "BUSINESS_ERROR"
    /\ resp.msg[2] = 1
    /\ \E c \in DOMAIN classrooms : classrooms[c].isActive /\ ActiveIn(c) = 1

\* C15: the active flag of a classroom goes from TRUE to FALSE only in a step at
\* which its currentEnrollment is 0 and no active student references it.
C15_DeactivatedOnlyWhenEmpty ==
    [][\A c \in DOMAIN classrooms :
          (classrooms[c].isActive /\ ~classrooms'[c].isActive)
              => /\ classrooms[c].currentEnrollment = 0
                 /\ ActiveIn(c) = 0]_vars

\* C17: a school delete by a superadmin on a stored school sets the isActive of
\* that school to FALSE and changes nothing else: the record stays, and no
\* classroom and no student changes.
C17_SchoolDeleteDoesNotCascade ==
    [][resp'.op = "school.delete" =>
        \A token \in Tokens, id \in SchoolRefs :
            (/\ SchoolDeleteStep(token, id)
             /\ token.role = "superadmin"
             /\ id \in DOMAIN schools)
                => /\ resp'.code = "OK"
                   /\ schools' = [schools EXCEPT ![id].isActive = FALSE]
                   /\ classrooms' = classrooms
                   /\ students' = students]_vars

\* a school was deleted while an active classroom of it holds an active student
C17_Witness ==
    /\ resp.op = "school.delete"
    /\ resp.code = "OK"
    /\ \E c \in DOMAIN classrooms :
           /\ ~schools[classrooms[c].schoolId].isActive
           /\ classrooms[c].isActive
           /\ ActiveIn(c) > 0

\* C19: in every reachable state a classroom create whose body passed the
\* validation of the route returns FORBIDDEN when the caller cannot access the
\* stated school, else NOT_FOUND when the school is not stored, and in both cases
\* stores nothing; otherwise, for a capacity of 1 or more, it stores one new
\* classroom of that school with currentEnrollment 0 whatever currentEnrollment
\* the caller supplied, and changes nothing else; a capacity of 0 stores nothing.
C19_CreateStartsEmpty ==
    \A token \in Tokens, schoolId \in SchoolRefs, capacity \in CapacityInputs,
       currentEnrollment \in Optional(1..MaxCapacity) :
        LET out == ClassroomCreate(token, schoolId, capacity, currentEnrollment) IN
        IF capacity = Number(0)
        THEN out.code = "VALIDATION_ERROR" /\ Untouched(out)
        ELSE IF ~Authorized(token, schoolId)
        THEN out.code = "FORBIDDEN" /\ Untouched(out)
        ELSE IF schoolId \notin DOMAIN schools
        THEN out.code = "NOT_FOUND" /\ Untouched(out)
        ELSE IF capacity[2] >= 1
        THEN /\ out.code = "OK"
             /\ out.classrooms = Append(classrooms,
                    [schoolId |-> schoolId, capacity |-> capacity[2],
                     currentEnrollment |-> 0, isActive |-> TRUE])
             /\ out.schools = schools
             /\ out.students = students
        ELSE out.code = "VALIDATION_ERROR" /\ Untouched(out)

\* a second classroom was stored, with no student counted
C19_Witness ==
    /\ resp.op = "classroom.create"
    /\ resp.code = "OK"
    /\ Len(classrooms) = 2
    /\ Len(before.classrooms) = 1
    /\ classrooms[2].currentEnrollment = 0

\* the operation was refused for lack of access and left the stores alone
Denied(out) == out.code = "FORBIDDEN" /\ Untouched(out)

C16_SchoolsBySuperadminOnly ==
    \A token \in Tokens :
        /\ token.role # "superadmin" =>
               /\ \A page \in Pages, limit \in Limits :
                      Denied(SchoolGetAll(token, page, limit))
               /\ Denied(SchoolCreate(token, TRUE))
               /\ \A id \in SchoolRefs :
                      /\ \A updateData \in SchoolPatches :
                             Denied(SchoolUpdate(token, id, updateData, TRUE))
                      /\ Denied(SchoolDelete(token, id))
        /\ \A id \in SchoolRefs :
               /\ SchoolGetById(token, id).code = "FORBIDDEN" <=> ~Authorized(token, id)
               /\ SchoolGetStats(token, id).code = "FORBIDDEN" <=> ~Authorized(token, id)
               /\ Untouched(SchoolGetById(token, id))
               /\ Untouched(SchoolGetStats(token, id))

\* the admin of a school asked for the list of the schools and was refused,
\* with two schools stored
C16_Witness ==
    /\ resp.op = "school.getAll"
    /\ resp.code = "FORBIDDEN"
    /\ resp.token.role = "school_admin"
    /\ Len(schools) = 2

\* C18: every classroom the classroom listing returned, and every student the
\* student listing returned, is of a school the claim of the caller has access
\* to: the own school of a school admin, whatever filter the request carried.
C18_ListingsWithinSchool ==
    /\ resp.op = "classroom.getAll" =>
           \A i \in 1..Len(resp.msg) :
               Authorized(resp.token, classrooms[resp.msg[i]].schoolId)
    /\ resp.op = "student.getAll" =>
           \A i \in 1..Len(resp.msg) :
               Authorized(resp.token, students[resp.msg[i]].schoolId)

\* the student listing returned a student to the admin of a school while a
\* student of another school is stored
C18_Witness ==
    /\ resp.op = "student.getAll"
    /\ resp.token.role = "school_admin"
    /\ Len(resp.msg) > 0
    /\ \E s \in DOMAIN students : ~Authorized(resp.token, students[s].schoolId)

\* the codes of the refusals of the managers
DomainErrors ==
    {"FORBIDDEN", "NOT_FOUND", "INVALID_OPERATION", "CAPACITY_FULL", "BUSINESS_ERROR"}

\* C23: a step whose operation answers FORBIDDEN, NOT_FOUND, INVALID_OPERATION,
\* CAPACITY_FULL or BUSINESS_ERROR leaves the stored schools, classrooms and
\* students exactly as they were.
C23_RefusalsWriteNothing ==
    [][resp'.code \in DomainErrors => NothingWritten]_vars

\* a delete of a classroom with an active student was refused with
\* BUSINESS_ERROR and the classroom is still active, the student still active
C23_Witness ==
    /\ resp.op = "classroom.delete"
    /\ resp.code = "BUSINESS_ERROR"
    /\ \E c \in DOMAIN classrooms :
           /\ classrooms[c].isActive
           /\ ActiveStudents(c) > 0
    /\ classrooms = before.classrooms
    /\ students = before.students

\* C26: in every reachable state a transfer that passes all checks while the
\* currentEnrollment of the origin classroom is 0 succeeds, leaves the origin
\* counter at 0, raises the destination counter by 1 and moves the student.
C26_TransferFlooredAtZero ==
    \A token \in Tokens, id \in DOMAIN students, newClassroomId \in DOMAIN classrooms,
       reason \in Reasons :
        LET origin == students[id].classroomId
            out == StudentTransfer(token, id, newClassroomId, reason)
        IN  (/\ TransferPassesChecks(token, id, newClassroomId)
             /\ ClassroomExists(origin)
             /\ classrooms[origin].currentEnrollment = 0)
            => /\ out.code = "OK"
               /\ out.classrooms[origin].currentEnrollment = 0
               /\ out.classrooms[newClassroomId].currentEnrollment
                      = classrooms[newClassroomId].currentEnrollment + 1
               /\ out.students[id].classroomId = newClassroomId

\* C27: in every reachable state a student update whose patch changes
\* classroomId returns the code the transfer of the same student to the same
\* classroom returns, and when it succeeds it leaves the counters of the
\* origin and of the destination, the classroom reference and the
\* transferHistory of the student as the transfer leaves them.
C27_UpdateBehavesAsTransfer ==
    \A token \in Tokens, id \in DOMAIN students, newClassroomId \in ClassroomRefs :
        LET updateData == [NoStudentPatch EXCEPT !.classroomId = Some(newClassroomId)]
            updated == StudentUpdate(token, id, updateData)
            transferred == StudentTransfer(token, id, newClassroomId, None)
        IN  ChangesClassroom(students[id], updateData)
            => /\ updated.code = transferred.code
               /\ updated.code = "OK"
                  => /\ updated.classrooms = transferred.classrooms
                     /\ updated.students[id].classroomId
                            = transferred.students[id].classroomId
                     /\ updated.students[id].transferHistory
                            = transferred.students[id].transferHistory

C29_StudentStaysInSchool ==
    [][\A s \in DOMAIN students' :
           /\ s \in DOMAIN students => students'[s].schoolId = students[s].schoolId
           /\ students'[s].classroomId \in DOMAIN classrooms'
           /\ students'[s].schoolId = classrooms'[students'[s].classroomId].schoolId]_vars

\* sequence p is a prefix of sequence q
IsPrefix(p, q) ==
    /\ Len(p) <= Len(q)
    /\ \A i \in 1..Len(p) : p[i] = q[i]

\* C30: across every step the transferHistory of every stored student before
\* the step is a prefix of its transferHistory after the step, and it is longer
\* after the step only when the step is a successful transfer, and then by
\* exactly one entry.
C30_HistoryAppendOnly ==
    [][\A s \in DOMAIN students :
           /\ s \in DOMAIN students'
           /\ IsPrefix(students[s].transferHistory, students'[s].transferHistory)
           /\ Len(students'[s].transferHistory) > Len(students[s].transferHistory)
              => /\ resp'.op = "student.transfer"
                 /\ resp'.code = "OK"
                 /\ Len(students'[s].transferHistory)
                        = Len(students[s].transferHistory) + 1]_vars

\* C22: the response the dispatcher gives to an exception of a manager method is
\* one error response: 400 VALIDATION_ERROR with the failed paths as details for
\* a ValidationError, 409 for a duplicate key, 400 INVALID_ID for a CastError,
\* and 500 SERVER_ERROR for every other exception.
C22_ExceptionsAnswered ==
    resp.op = "catch" =>
        /\ ~resp.success
        /\ IF resp.error.name = "ValidationError"
           THEN /\ resp.status = 400
                /\ resp.code = "VALIDATION_ERROR"
                /\ resp.details = resp.error.errors
                /\ resp.details # {}
           ELSE IF resp.error.code = 11000
           THEN resp.status = 409
           ELSE IF resp.error.name = "CastError"
           THEN resp.status = 400 /\ resp.code = "INVALID_ID"
           ELSE resp.status = 500 /\ resp.code = "SERVER_ERROR"

\* a ValidationError on two paths was answered 400 with both paths as details
C22_Witness ==
    /\ resp.op = "catch"
    /\ resp.error.name = "ValidationError"
    /\ resp.status = 400
    /\ resp.details = {"capacity", "currentEnrollment"}

\* the code the middleware answers a credential that is not verified with
RefusalOf(kind) ==
    IF kind \in {"absent", "bare"} THEN "NO_TOKEN"
    ELSE IF kind = "expired" THEN "TOKEN_EXPIRED"
    ELSE "INVALID_TOKEN"

\* C21: on every route of the school, classroom and student routers a step that
\* serves a request whose token is missing, expired or invalid answers 401 with
\* the code NO_TOKEN, TOKEN_EXPIRED or INVALID_TOKEN respectively, invokes no
\* method of a manager and leaves every stored record as it was; a method of a
\* manager is invoked only on a request whose token was verified.
C21_ManagerAfterVerification ==
    [][/\ resp'.credential # "valid"
          => /\ resp'.status = 401
             /\ resp'.code = RefusalOf(resp'.credential)
             /\ ~resp'.invoked
             /\ NothingWritten
       /\ resp'.invoked => resp'.credential = "valid"]_vars

\* a withdrawal sent with an expired token of the superadmin was answered 401
\* TOKEN_EXPIRED while an active student is stored
C21_Witness ==
    /\ resp.op = "student.delete"
    /\ resp.code = "TOKEN_EXPIRED"
    /\ resp.status = 401
    /\ \E s \in DOMAIN students : students[s].status = "active"

EntryPoints == {"student.create", "student.transfer", "student.update", "student.delete"}

\* the writes the request in flight has still to make
Pending == SubSeq(req.plan, req.step, Len(req.plan))

\* a write of a classroom counter is among the writes still to make
CounterPending == \E i \in 1..Len(Pending) : Pending[i] \in {"origin", "destination"}

\* the student record has been written by the request in flight
StudentWritten == \E i \in 1..(req.step - 1) : req.plan[i] = "student"

\* C24 as stated: while a request of one of the four entry points is in flight,
\* the student record is not written as long as a write of a classroom counter
\* is still to be made.
C24_CountersBeforeStudent ==
    (req.pc = "write" /\ req.op \in EntryPoints) => ~(StudentWritten /\ CounterPending)

\* C24 amended: while a transfer or an update is in flight the student record is
\* as it was before the request (its write is the last one, after the writes of
\* the counters); while an enroll or a withdrawal is in flight the classrooms are
\* as they were before the request and, once a write has been made, the student
\* record is written (its write is the first one, before the write of the
\* counter).
C24_CountersFirstOnMoveOnly ==
    req.pc = "write" =>
        IF req.op \in {"student.transfer", "student.update"}
        THEN /\ students = before.students
             /\ ~StudentWritten
        ELSE /\ req.op \in {"student.create", "student.delete"}
             /\ classrooms = before.classrooms
             /\ req.step > 1 => /\ StudentWritten
                                /\ students[req.studentId] = req.student
                                /\ CounterPending

\* a withdrawal is in flight with the status of the student stored and the
\* counter of the classroom not yet lowered
C24_Witness ==
    /\ req.pc = "write"
    /\ req.op = "student.delete"
    /\ req.step = 2
    /\ students[req.studentId].status = "withdrawn"
    /\ before.students[req.studentId].status = "active"
    /\ classrooms[req.originId].currentEnrollment = 1
    /\ classrooms = before.classrooms

\* C25: while a transfer is in flight, and when the process stopped between two
\* of its writes, the student record is as it was before the transfer (it
\* references the origin and its transferHistory is unchanged) and the
\* counters are as before the transfer, or the origin is lowered by one, or the
\* origin is lowered by one and the destination raised by one: the writes are
\* made in the order origin, destination, student and at no point are both
\* classrooms counting the student.
C25_TransferWritesInOrder ==
    (req.pc \in {"write", "crashed"} /\ req.op = "student.transfer") =>
        LET o == req.originId
            d == req.destinationId
            lowered == [before.classrooms EXCEPT ![o].currentEnrollment = @ - 1]
        IN  /\ students = before.students
            /\ students[req.studentId].classroomId = o
            /\ o # d
            /\ \/ req.step = 1 /\ classrooms = before.classrooms
               \/ req.step = 2 /\ classrooms = lowered
               \/ /\ req.step = 3
                  /\ classrooms = [lowered EXCEPT ![d].currentEnrollment = @ + 1]
            /\ classrooms[o].currentEnrollment + classrooms[d].currentEnrollment
                   <= before.classrooms[o].currentEnrollment
                          + before.classrooms[d].currentEnrollment

\* the process stopped after the two counter writes of a transfer: the origin
\* counts one less, the destination one more, the student references the origin
C25_Witness ==
    /\ req.pc = "crashed"
    /\ req.op = "student.transfer"
    /\ req.step = 3
    /\ students[req.studentId].classroomId = req.originId
    /\ classrooms[req.originId].currentEnrollment = 0
    /\ classrooms[req.destinationId].currentEnrollment = 1

\* C31: across every step every stored school, classroom and student stays
\* stored under its identifier: the three stores only grow.
C31_RecordsNeverRemoved ==
    [][/\ DOMAIN schools \subseteq DOMAIN schools'
       /\ DOMAIN classrooms \subseteq DOMAIN classrooms'
       /\ DOMAIN students \subseteq DOMAIN students']_vars

\* a classroom was deleted after its only student was withdrawn: the classroom
\* is stored with isActive false and the student with status withdrawn
C31_Witness ==
    /\ resp.op = "classroom.delete"
    /\ resp.code = "OK"
    /\ \E c \in DOMAIN classrooms :
           /\ ~classrooms[c].isActive
           /\ before.classrooms[c].isActive
           /\ \E s \in DOMAIN students :
                  /\ students[s].classroomId = c
                  /\ students[s].status = "withdrawn"

\* C35: a step of an operation other than student create, update, transfer and
\* delete leaves the currentEnrollment of every stored classroom and the status
\* and the classroomId of every stored student as they were.
C35_OnlyEnrollmentMovesCounters ==
    [][resp'.op \notin StudentOps
       => /\ \A c \in DOMAIN classrooms :
                 classrooms'[c].currentEnrollment = classrooms[c].currentEnrollment
          /\ \A s \in DOMAIN students :
                 /\ students'[s].status = students[s].status
                 /\ students'[s].classroomId = students[s].classroomId]_vars

\* the outcome leaves the currentEnrollment of every classroom as it is
CountersKept(out) ==
    /\ DOMAIN out.classrooms = DOMAIN classrooms
    /\ \A c \in DOMAIN classrooms :
           out.classrooms[c].currentEnrollment = classrooms[c].currentEnrollment

\* C36: in every state reached by the withdrawal of an active student, a second
\* withdrawal of that student leaves the currentEnrollment of every classroom
\* at the value the first withdrawal left.
C36_SecondWithdrawKeepsCounters ==
    (resp.op = "student.delete" /\ resp.code = "OK") =>
        \A token \in Tokens, id \in DOMAIN students :
            (/\ students[id].status = "withdrawn"
             /\ before.students[id].status = "active")
            => CountersKept(StudentDelete(token, id))

\* C37: in every reachable state a transfer, and an update whose patch names
\* another classroom, of a student whose status is not active leaves the
\* currentEnrollment of every classroom as it is.
C37_OnlyActiveStudentsMoved ==
    \A token \in Tokens, id \in DOMAIN students, newClassroomId \in ClassroomRefs :
        students[id].status # "active"
        => /\ \A reason \in Reasons :
                  CountersKept(StudentTransfer(token, id, newClassroomId, reason))
           /\ CountersKept(StudentUpdate(token, id,
                  [NoStudentPatch EXCEPT !.classroomId = Some(newClassroomId)]))

\* C38: no step raises the currentEnrollment of a classroom stored with
\* isActive = FALSE: enroll, transfer and classroom-changing update do not
\* succeed into a deactivated classroom.
C38_InactiveClassroomNeverFills ==
    [][resp'.op \in {"student.create", "student.transfer", "student.update"}
       => \A c \in DOMAIN classrooms :
              ~classrooms[c].isActive
              => classrooms'[c].currentEnrollment <= classrooms[c].currentEnrollment]_vars

\* C40: in every reachable state, for the admin of a school A, a stored record
\* of another school B and an identifier that names no stored record, student
\* and classroom getById, update, delete and transfer answer both with the same
\* code, so that the answer does not tell whether the record exists.
C40_ForeignRecordLooksMissing ==
    \A a \in 1..MaxSchools :
        LET token == SchoolAdmin(a) IN
        /\ \A c \in DOMAIN classrooms, missing \in ClassroomRefs \ DOMAIN classrooms :
               classrooms[c].schoolId # a =>
                   /\ ClassroomGetById(token, c).code = ClassroomGetById(token, missing).code
                   /\ ClassroomUpdate(token, c, NoClassroomPatch).code
                          = ClassroomUpdate(token, missing, NoClassroomPatch).code
                   /\ ClassroomDelete(token, c).code = ClassroomDelete(token, missing).code
        /\ \A s \in DOMAIN students, missing \in StudentRefs \ DOMAIN students :
               students[s].schoolId # a =>
                   /\ StudentGetById(token, s).code = StudentGetById(token, missing).code
                   /\ StudentUpdate(token, s, NoStudentPatch).code
                          = StudentUpdate(token, missing, NoStudentPatch).code
                   /\ StudentDelete(token, s).code = StudentDelete(token, missing).code
                   /\ \A newClassroomId \in ClassroomRefs, reason \in Reasons :
                          StudentTransfer(token, s, newClassroomId, reason).code
                              = StudentTransfer(token, missing, newClassroomId, reason).code

\* C39: whenever executeManager has prepared the params of an authenticated
\* request, their __token is the claim the authenticate middleware attached,
\* whatever the body, the query string and the route parameters carry, so two
\* requests with the same credential are authorized against the same claim.
C39_TokenFromAuthenticationOnly ==
    resp.op = "executeManager" =>
        /\ "__token" \in DOMAIN resp.params
        /\ resp.params["__token"] = resp.token

\* a school admin's request states a superadmin claim under __token in body,
\* query string and route, and the manager is handed the admin's own claim
C39_Witness ==
    /\ resp.op = "executeManager"
    /\ resp.token.role = "school_admin"
    /\ \A bag \in {resp.body, resp.query, resp.route} :
           "__token" \in DOMAIN bag /\ bag["__token"] = Superadmin
    /\ resp.params["__token"] = resp.token

\* C32: when the counter write of an enroll fails after the student was
\* stored, the step leaves the stored student in place and every classroom as
\* it was before the request, and the caller is answered 500 SERVER_ERROR.
C32_FailedCounterWriteKeepsStudent ==
    [][(/\ req.pc = "write"
        /\ EnrollWrites[req.step] = "classroom"
        /\ req' = Idle
        /\ classrooms' = classrooms)
       => /\ students' = students
          /\ Len(students') = Len(before'.students) + 1
          /\ students'[Len(students')].status = "active"
          /\ students'[Len(students')].classroomId = req.classroomId[1]
          /\ classrooms' = before'.classrooms
          /\ resp'.op = "student.create"
          /\ resp'.code = "SERVER_ERROR"
          /\ resp'.status = 500]_vars

\* an enroll was answered SERVER_ERROR; its student is stored and active in a
\* classroom whose counter was not raised
C32_Witness ==
    /\ req = Idle
    /\ resp.op = "student.create"
    /\ resp.code = "SERVER_ERROR"
    /\ Len(students) = Len(before.students) + 1
    /\ classrooms = before.classrooms
    /\ LET c == students[Len(students)].classroomId IN
           /\ students[Len(students)].status = "active"
           /\ classrooms[c].currentEnrollment = 0
           /\ ActiveIn(c) = 1

\* C34: under every interleaving of concurrent enroll, transfer, withdraw and
\* capacity-update requests at their persistence calls, every stored classroom
\* has 0 <= currentEnrollment <= capacity in every state.
C34_ConcurrentEnrollmentWithinCapacity ==
    \A c \in DOMAIN classrooms :
        /\ 0 <= classrooms[c].currentEnrollment
        /\ classrooms[c].currentEnrollment <= classrooms[c].capacity

\* C33: the counter save that ends an enroll stores the counter of the copy the
\* request read, plus one, whatever the stored counter has become since; so
\* two enrolls that both read the last free seat of a classroom both succeed
\* and leave the counter at the capacity with two new active students.
C33_EnrollSavesItsOwnCount ==
    [][\A r \in Slots :
           (/\ req[r].pc = "saveDestination"
            /\ req[r].op = "student.create"
            /\ req'[r].pc = "idle"
            /\ resp'[r].code = "OK")
           => classrooms'[req[r].destinationId].currentEnrollment
                  = req[r].destination[1].currentEnrollment + 1]_vars

\* both slots answered an enroll with success, the classroom they enrolled in
\* had one free seat, holds two active students stored by them, and its
\* counter was raised to the capacity only
C33_Witness ==
    /\ \A r \in Slots :
           resp[r] = [op |-> "student.create", code |-> "OK"] /\ req[r] = Free
    /\ ops = 2
    /\ \E c \in DOMAIN classrooms :
           /\ before.classrooms[c].capacity = before.classrooms[c].currentEnrollment + 1
           /\ classrooms[c].currentEnrollment = classrooms[c].capacity
           /\ classrooms[c].capacity = before.classrooms[c].capacity
           /\ ActiveIn(c) = 2
           /\ Len(before.students) = 0

====
